---- MODULE Spec2Model ----
(***************************************************************************)
(* State-fusion pipeline of the network monitor:                           *)
(*   - agent/interface_manager.py, agent/sysfs_poller.py,                  *)
(*     agent/netlink_monitor.py      (interface fusion, section FUSION)    *)
(*   - api/services/link_state_service.py, api/services/event_bus.py      *)
(*                                   (store and bus, section STORE)        *)
(*   - api/services/containerlab_parser.py, api/services/lab_service.py   *)
(*                                   (lab ingest, section LAB)             *)
(*   - agent/hubble_monitor.py       (flow observer, section FLOW)         *)
(* Every section has its own specification over the shared variable list;  *)
(* a section's actions leave the other sections' variables unchanged.      *)
(***************************************************************************)
EXTENDS Integers, Sequences, FiniteSets, TLC

VARIABLES
    \* ---- FUSION: InterfaceManager, SysfsPoller, NetlinkMonitor ----
    mgr_running,        \* InterfaceManager._running
    interfaces,         \* InterfaceManager._interfaces: iface -> info, or NoInfo
    current_states,     \* SysfsPoller._current_states: iface -> state, or "absent"
    idle_counters,      \* SysfsPoller._idle_counters
    previous_stats,     \* SysfsPoller._previous_stats: is a sample held
    previous_states,    \* NetlinkMonitor._previous_states: iface -> operstate, or "none"
    emit_tasks,         \* scheduled _emit_event tasks, in creation order
    applied,            \* history: the events, in the order their inputs were applied
    event_queue,        \* InterfaceManager._event_queue
    latest_oper,        \* history: operstate of the latest link input (or first sysfs read)
    rule_value,         \* history: value of the fusion rule on the inputs so far
    n_inputs,           \* history: inputs applied per interface
    n_changes,          \* history: inputs at which rule_value changed
    zero_run,           \* history: zero-delta samples since the last other sample
    \* ---- STORE: LinkStateService ----
    nodes,              \* LinkStateService._nodes: node id -> node
    links,              \* LinkStateService._links: link id -> link
    interface_to_link,  \* LinkStateService._interface_to_link: interface -> link id
    store_lock,         \* LinkStateService._lock is held
    store_pc,           \* where the running store coroutine stands
    store_pending,      \* the event it publishes after the lock, or NoEvent
    last_call,          \* history: the store call running or last finished
    prev_call,          \* history: the store call before it
    n_calls,            \* history: store calls made
    commit_log,         \* history: the events of the mutations, in the order committed
    \* ---- LAB: LabService, ContainerlabParser, the cluster ----
    lab_records,        \* LabService._labs: lab name -> Lab
    status_watchers,    \* LabService._status_watchers: lab names with a watcher task
    crds,               \* Topology CRDs the cluster holds
    deploying,          \* deploy_lab calls awaiting k8s.create_topology
    n_deploys,          \* deploy_lab calls begun
    deploy_result,      \* what the last deploy_lab call returned or raised
    parsed,             \* history: per lab, what the parser produced for its deploys
    deleting,           \* delete_lab calls awaiting k8s.delete_topology
    delete_result,      \* what the last delete_lab call returned or raised
    last_watch,         \* history: the last step of a status watcher
    \* ---- FLOW: HubbleMonitor ----
    flow_states,        \* HubbleMonitor._flow_states: flow key -> state, or "absent"
    flow_last_seen,     \* HubbleMonitor._flow_last_seen: flow key -> time, or -1
    flow_queue,         \* HubbleMonitor._event_queue
    clock,              \* datetime.now(), in ticks of half a second
    last_sweep,         \* the time of the last idle check
    last_flow,          \* history: the last step of the monitor
    n_records,          \* history: flow records processed
    last_rec,           \* history: per flow, verdict and time of its last record
    idle_at,            \* history: per flow, times of the IDLE changes since that record
    hubble_pc,          \* where HubbleMonitor.run stands: "new", "stream", "stopped"
    last_forwarded,     \* history: per flow, time of its last FORWARDED record, or -1
    \* ---- BUS: EventBus, Subscriber ----
    history,            \* EventBus._history
    event_count,        \* EventBus._event_count
    subscribers,        \* EventBus._subscribers and the Subscriber objects
    observed,           \* history: what get_event returned to each subscriber
    offered,            \* history: events published while the subscriber was subscribed
    \* ---- PUBLISHER: EventPublisher over a network sink ----
    batch_size,         \* EventPublisher.batch_size; 0 while the agent has no publisher
    _buffer,            \* EventPublisher._buffer
    coroutines,         \* the publish calls and the stop call: where each stands
    sink_log,           \* what the sink has accepted, in order
    n_published,        \* publish calls made
    overlapped,         \* history: two calls were in flight at once, or a call was
                        \* made after stop
    direct_ok,          \* history: a publish call handed its event to the sink itself
    last_pub,           \* history: the last step of the publisher
    \* ---- HTTP: HttpPublisher.publish ----
    retry_count,        \* HttpPublisher.retry_count; -1 while there is no publisher
    http_pc,            \* where the publish call stands: "idle", "post", "sleep"
    attempt,            \* the loop variable of publish
    http_result,        \* the PublishResult of the last publish call
    http_log,           \* history: what each POST of the current call ended with
    n_http,             \* history: publish calls made
    \* ---- METRICS: SysfsPoller._compute_metrics for one interface ----
    stats_previous,     \* SysfsPoller._previous_stats[ifname], or NoStats
    current_metrics,    \* SysfsPoller._current_metrics[ifname], with the deltas
    poller_idle,        \* SysfsPoller._idle_counters[ifname]
    poller_state,       \* SysfsPoller._current_states[ifname]
    n_polls             \* history: samples taken

fusionVars == <<mgr_running, interfaces, current_states, idle_counters,
                previous_stats, previous_states, emit_tasks, applied, event_queue,
                latest_oper, rule_value, n_inputs, n_changes, zero_run>>

storeVars == <<nodes, links, interface_to_link, store_lock, store_pc,
               store_pending, last_call, prev_call, n_calls, commit_log>>

labVars == <<lab_records, status_watchers, crds, deploying, n_deploys,
             deploy_result, parsed, deleting, delete_result, last_watch>>

flowVars == <<flow_states, flow_last_seen, flow_queue, clock, last_sweep,
              last_flow, n_records, last_rec, idle_at, hubble_pc,
              last_forwarded>>

busVars == <<history, event_count, subscribers, observed, offered>>

pubVars == <<batch_size, _buffer, coroutines, sink_log, n_published,
             overlapped, direct_ok, last_pub>>

httpVars == <<retry_count, http_pc, attempt, http_result, http_log, n_http>>

metricsVars == <<stats_previous, current_metrics, poller_idle, poller_state,
                 n_polls>>

vars == <<fusionVars, storeVars, labVars, flowVars, busVars, pubVars, httpVars,
          metricsVars>>

notFusion == <<storeVars, labVars, flowVars, busVars, pubVars, httpVars,
    metricsVars>>
notStore == <<fusionVars, labVars, flowVars, pubVars, httpVars,
    metricsVars>>
notBus == <<fusionVars, storeVars, labVars, flowVars, pubVars, httpVars,
    metricsVars>>
notFlow == <<fusionVars, storeVars, labVars, busVars, pubVars, httpVars,
    metricsVars>>
notLab == <<fusionVars, flowVars, pubVars, httpVars,
    metricsVars>>
notPub == <<fusionVars, storeVars, labVars, flowVars, busVars, httpVars,
    metricsVars>>
notHttp == <<fusionVars, storeVars, labVars, flowVars, busVars, pubVars,
    metricsVars>>
notMetrics == <<fusionVars, storeVars, labVars, flowVars, busVars, pubVars,
    httpVars>>

(***************************************************************************)
(*                               FUSION                                    *)
(***************************************************************************)

\* Bounds of the model.
MaxInputs == 3          \* link messages and counter samples per run
IdleThreshold == 2      \* SysfsPoller idle_threshold_samples (constructor argument)
MaxCounter == 3         \* zero-delta samples in a row that are followed

\* eth0 is monitored; veth0 matches DEFAULT_EXCLUDE but is still seen by both
\* monitors, which are built without a filter when interface_filter is None.
Ifaces == {"eth0", "veth0"}

DEFAULT_EXCLUDE == {"veth0"}

\* interface_manager.py LinkState
UP_ACTIVE == "active"
UP_IDLE == "idle"
DOWN == "down"
UNKNOWN == "unknown"

\* sysfs_poller.py TrafficState
T_ACTIVE == "active"
T_IDLE == "idle"
T_UNKNOWN == "unknown"

\* netlink_monitor.py OPERSTATE_MAP values used by the model
OperStates == {"up", "down", "dormant"}

\* What reading /sys/class/net/<if>/operstate can give: a value, or no file.
SysfsReads == OperStates \cup {"unreadable"}

\* Byte-counter deltas between two samples.
Deltas == {0, 1}

ACTIVE_THRESHOLD_BYTES == 0

NoInfo == [known |-> FALSE, operstate |-> "unknown", link_state |-> UNKNOWN]

_should_monitor(ifname) == ifname \notin DEFAULT_EXCLUDE

\* InterfaceManager._read_interface_info: r is what sysfs holds at the read.
_read_interface_info(r) ==
    IF r = "unreadable"
    THEN [known |-> TRUE, operstate |-> "unknown", link_state |-> UNKNOWN]
    ELSE [known |-> TRUE, operstate |-> r,
          link_state |-> IF r = "up" THEN UP_IDLE ELSE DOWN]

\* Mutant of _compute_link_state: traffic is looked at before operstate.
_compute_link_state_TrafficFirst(operstate, traffic_state) ==
    IF traffic_state = T_ACTIVE THEN UP_ACTIVE
    ELSE IF operstate # "up" THEN DOWN
    ELSE UP_IDLE

\* InterfaceManager._compute_link_state
_compute_link_state(operstate, traffic_state) ==
    IF operstate # "up" THEN DOWN
    ELSE IF traffic_state = T_ACTIVE THEN UP_ACTIVE
    ELSE IF traffic_state = T_IDLE THEN UP_IDLE
    ELSE UP_IDLE

\* SysfsPoller.get_state
get_state(ifname) ==
    IF current_states[ifname] = "absent" THEN T_UNKNOWN ELSE current_states[ifname]

StateChangeEvent(ifname, old, new, src) ==
    [interface |-> ifname, old_state |-> old, new_state |-> new, source |-> src]

InitFusion ==
    /\ mgr_running = FALSE
    /\ interfaces = [i \in Ifaces |-> NoInfo]
    /\ current_states = [i \in Ifaces |-> "absent"]
    /\ idle_counters = [i \in Ifaces |-> 0]
    /\ previous_stats = [i \in Ifaces |-> FALSE]
    /\ previous_states = [i \in Ifaces |-> "none"]
    /\ emit_tasks = <<>>
    /\ applied = <<>>
    /\ event_queue = <<>>
    /\ latest_oper = [i \in Ifaces |-> "unknown"]
    /\ rule_value = [i \in Ifaces |-> UNKNOWN]
    /\ n_inputs = [i \in Ifaces |-> 0]
    /\ n_changes = [i \in Ifaces |-> 0]
    /\ zero_run = [i \in Ifaces |-> 0]

TotalInputs == n_inputs["eth0"] + n_inputs["veth0"]

\* InterfaceManager.start: read the info of every discovered interface, then
\* NetlinkMonitor.start (get_current_states) and SysfsPoller.start.
\* k is what the kernel holds for each interface at that moment.
ManagerStart ==
    /\ ~mgr_running
    /\ \E k \in [Ifaces -> SysfsReads] :
        /\ interfaces' = [i \in Ifaces |->
                IF _should_monitor(i) THEN _read_interface_info(k[i]) ELSE NoInfo]
        /\ previous_states' = [i \in Ifaces |->
                IF k[i] = "unreadable" THEN "none" ELSE k[i]]
        /\ latest_oper' = [i \in Ifaces |->
                IF _should_monitor(i) THEN _read_interface_info(k[i]).operstate
                ELSE "unknown"]
        /\ rule_value' = [i \in Ifaces |->
                IF _should_monitor(i) THEN _read_interface_info(k[i]).link_state
                ELSE UNKNOWN]
    /\ previous_stats' = [i \in Ifaces |-> TRUE]
    /\ current_states' = [i \in Ifaces |-> T_UNKNOWN]
    /\ idle_counters' = [i \in Ifaces |-> 0]
    /\ mgr_running' = TRUE
    /\ UNCHANGED <<emit_tasks, applied, event_queue, n_inputs, n_changes, zero_run>>

\* Mutant of state_changed: every input counts as a change.
state_changed_Always(old_state, new_state) == TRUE

\* The test `if old_state != new_state` of both handlers.
state_changed(old_state, new_state) == old_state # new_state

\* The part shared by _on_link_change and _on_traffic_change: fetch or read the
\* info, store the operstate, compute, and on a change store the new state and
\* schedule one _emit_event task.
\*   r        what sysfs holds if the info must be read now
\*   setOper  TRUE for a link input (info.operstate := oper)
\*   traffic  the traffic state the rule is computed with
ApplyInput(ifname, r, setOper, oper, traffic, src) ==
    LET info0 == IF interfaces[ifname].known THEN interfaces[ifname]
                 ELSE _read_interface_info(r)
        old_state == info0.link_state
        operstate == IF setOper THEN oper ELSE info0.operstate
        new_state == _compute_link_state(operstate, traffic)
        before == IF interfaces[ifname].known THEN rule_value[ifname]
                  ELSE info0.link_state
    IN  /\ interfaces' = [interfaces EXCEPT ![ifname] =
                [known |-> TRUE, operstate |-> operstate,
                 link_state |-> IF state_changed(old_state, new_state)
                                THEN new_state ELSE old_state]]
        /\ emit_tasks' = IF state_changed(old_state, new_state)
                         THEN Append(emit_tasks,
                                     StateChangeEvent(ifname, old_state, new_state, src))
                         ELSE emit_tasks
        /\ applied' = IF state_changed(old_state, new_state)
                      THEN Append(applied,
                                  StateChangeEvent(ifname, old_state, new_state, src))
                      ELSE applied
        /\ latest_oper' = [latest_oper EXCEPT ![ifname] =
                            IF setOper THEN oper
                            ELSE IF interfaces[ifname].known THEN @
                            ELSE IF r = "unreadable" THEN "unknown" ELSE r]
        /\ rule_value' = [rule_value EXCEPT ![ifname] =
                            IF latest_oper'[ifname] # "up" THEN DOWN
                            ELSE IF traffic = T_ACTIVE THEN UP_ACTIVE ELSE UP_IDLE]
        /\ n_changes' = [n_changes EXCEPT ![ifname] =
                            IF rule_value'[ifname] # before THEN @ + 1 ELSE @]
        /\ n_inputs' = [n_inputs EXCEPT ![ifname] = @ + 1]

\* InterfaceManager._on_link_change
_on_link_change(ifname, operstate, r) ==
    ApplyInput(ifname, r, TRUE, operstate, get_state(ifname), "netlink")

\* InterfaceManager._on_traffic_change; the poller has stored new_state already.
_on_traffic_change(ifname, new_state, r) ==
    ApplyInput(ifname, r, FALSE, "unknown", new_state, "sysfs")

\* NetlinkMonitor._poll_netlink / _parse_message for one RTM_NEWLINK message:
\* LINK_ADDED, LINK_UP and LINK_DOWN reach the callback, anything else is skipped.
NetlinkMessage(ifname, operstate, r) ==
    /\ mgr_running
    /\ TotalInputs < MaxInputs
    /\ LET prev_state == previous_states[ifname]
           is_event == \/ prev_state = "none"
                       \/ (operstate = "up" /\ prev_state # "up")
                       \/ (operstate # "up" /\ prev_state = "up")
       IN  IF is_event
           THEN /\ previous_states' = [previous_states EXCEPT ![ifname] = operstate]
                /\ _on_link_change(ifname, operstate, r)
           ELSE UNCHANGED <<previous_states, interfaces, emit_tasks, applied,
                            latest_oper, rule_value, n_changes, n_inputs>>
    /\ UNCHANGED <<mgr_running, current_states, idle_counters, previous_stats,
                   event_queue, zero_run>>

\* Mutant of traffic_state_of: the zero counter is not reset by traffic.
traffic_state_of_NoReset(ifname, delta) ==
    IF delta > ACTIVE_THRESHOLD_BYTES
    THEN [state |-> T_ACTIVE, counter |-> idle_counters[ifname]]
    ELSE LET c == idle_counters[ifname] + 1
         IN  [state |-> IF c >= IdleThreshold THEN T_IDLE ELSE get_state(ifname),
              counter |-> c]

\* SysfsPoller._compute_metrics, lines 213-226: the traffic state of a sample
\* and the new zero counter.
traffic_state_of(ifname, delta) ==
    IF delta > ACTIVE_THRESHOLD_BYTES
    THEN [state |-> T_ACTIVE, counter |-> 0]
    ELSE LET c == idle_counters[ifname] + 1
         IN  [state |-> IF c >= IdleThreshold THEN T_IDLE ELSE get_state(ifname),
              counter |-> c]

\* SysfsPoller._poll_once for one interface, with byte delta `delta`.
PollSample(ifname, delta, r) ==
    /\ mgr_running
    /\ TotalInputs < MaxInputs
    /\ previous_stats[ifname]
    /\ delta <= ACTIVE_THRESHOLD_BYTES => idle_counters[ifname] < MaxCounter
    /\ LET m == traffic_state_of(ifname, delta)
           old_state == get_state(ifname)
       IN  /\ idle_counters' = [idle_counters EXCEPT ![ifname] = m.counter]
           /\ IF old_state # m.state
              THEN /\ current_states' = [current_states EXCEPT ![ifname] = m.state]
                   /\ _on_traffic_change(ifname, m.state, r)
              ELSE UNCHANGED <<current_states, interfaces, emit_tasks, applied,
                               latest_oper, rule_value, n_changes, n_inputs>>
    /\ zero_run' = [zero_run EXCEPT ![ifname] =
                        IF delta > ACTIVE_THRESHOLD_BYTES THEN 0 ELSE @ + 1]
    /\ UNCHANGED <<mgr_running, previous_stats, previous_states, event_queue>>

\* Mutant of EmitEvent: the task created last runs first.
EmitEvent_NewestFirst ==
    /\ emit_tasks # <<>>
    /\ event_queue' = Append(event_queue, emit_tasks[Len(emit_tasks)])
    /\ emit_tasks' = SubSeq(emit_tasks, 1, Len(emit_tasks) - 1)
    /\ UNCHANGED <<mgr_running, interfaces, current_states, idle_counters,
                   previous_stats, previous_states, latest_oper, rule_value,
                   n_inputs, n_changes, zero_run, applied>>

\* One scheduled _emit_event task runs: asyncio runs tasks in creation order,
\* and put on the unbounded event queue does not suspend, so the task puts
\* its event and calls the callback in one step.
EmitEvent ==
    /\ emit_tasks # <<>>
    /\ event_queue' = Append(event_queue, Head(emit_tasks))
    /\ emit_tasks' = Tail(emit_tasks)
    /\ UNCHANGED <<mgr_running, interfaces, current_states, idle_counters,
                   previous_stats, previous_states, latest_oper, rule_value,
                   n_inputs, n_changes, zero_run, applied>>

\* The sysfs reads that matter to a handler: none once the info is held.
ReadsFor(ifname) == IF interfaces[ifname].known THEN {"unreadable"} ELSE SysfsReads

NextFusion ==
    \/ ManagerStart /\ UNCHANGED notFusion
    \/ \E i \in Ifaces, o \in OperStates : \E r \in ReadsFor(i) :
            NetlinkMessage(i, o, r) /\ UNCHANGED notFusion
    \/ \E i \in Ifaces, d \in Deltas : \E r \in ReadsFor(i) :
            PollSample(i, d, r) /\ UNCHANGED notFusion
    \/ EmitEvent /\ UNCHANGED notFusion

\* StateChangeEvents of one interface in a sequence of events.
EventsOf(ifname, q) == Cardinality({k \in 1..Len(q) : q[k].interface = ifname})

\* C1: once an input was applied to an interface, its fused state is the fusion
\* rule on the latest operstate and the latest traffic state: DOWN when the
\* operstate is not "up" whatever the traffic state, UP_ACTIVE when up and
\* ACTIVE, UP_IDLE when up and IDLE or UNKNOWN.
C1_FusedStateIsRule ==
    \A i \in Ifaces :
        (interfaces[i].known /\ n_inputs[i] > 0) =>
            /\ latest_oper[i] # "up" => interfaces[i].link_state = DOWN
            /\ (latest_oper[i] = "up" /\ get_state(i) = T_ACTIVE)
                    => interfaces[i].link_state = UP_ACTIVE
            /\ (latest_oper[i] = "up" /\ get_state(i) \in {T_IDLE, T_UNKNOWN})
                    => interfaces[i].link_state = UP_IDLE

\* C1 witness: a link input took eth0 down while its traffic state is ACTIVE.
C1_Witness ==
    /\ n_inputs["eth0"] >= 2
    /\ latest_oper["eth0"] = "down"
    /\ get_state("eth0") = T_ACTIVE
    /\ interfaces["eth0"].link_state = DOWN

\* C2: per interface, the StateChangeEvents created (scheduled or already on
\* the event queue) are as many as the inputs at which the value of the fusion
\* rule changed.
C2_OneEventPerChange ==
    \A i \in Ifaces :
        EventsOf(i, emit_tasks) + EventsOf(i, event_queue) = n_changes[i]

\* C2 witness: eth0 had two events and an input that emitted none.
C2_Witness ==
    /\ emit_tasks = <<>>
    /\ EventsOf("eth0", event_queue) = 2
    /\ n_inputs["eth0"] = 3

\* C13: in every step of the sampler, an interface is reported IDLE only when
\* the samples since the last non-zero delta are at least idle_threshold
\* zero-delta samples; the code's zero counter is that number, so a non-zero
\* sample resets it to 0, and such a sample leaves the state ACTIVE; and an
\* ACTIVE interface with fewer zero-delta samples than the threshold stays
\* ACTIVE.
C13_IdleNeedsThresholdZeros ==
    [][ \A i \in Ifaces :
            /\ current_states'[i] = "idle" => zero_run'[i] >= IdleThreshold
            /\ idle_counters'[i] = zero_run'[i]
            /\ (zero_run'[i] = 0 /\ zero_run[i] > 0) => current_states'[i] = "active"
            /\ (current_states[i] = "active" /\ zero_run'[i] < IdleThreshold)
                    => current_states'[i] = "active" ]_vars

\* C13 witness: an ACTIVE interface has had zero-delta samples, one fewer than
\* the threshold, and is still ACTIVE.
C13_Witness ==
    \E i \in Ifaces :
        /\ current_states[i] = "active"
        /\ zero_run[i] = IdleThreshold - 1
        /\ zero_run[i] > 0

\* Scenario E1 has run for interface i: its operstate was up when the
\* monitors started and no link event came since, and the one traffic change
\* of the sampler is the one to IDLE, after zero-delta samples only.
E1Done(i) ==
    /\ mgr_running
    /\ previous_states[i] = "up"
    /\ latest_oper[i] = "up"
    /\ current_states[i] = "idle"
    /\ zero_run[i] >= IdleThreshold
    /\ n_inputs[i] = 1
    /\ EventsOf(i, emit_tasks) = 0

\* C14: when scenario E1 has run for an interface the manager discovered at
\* its start, exactly one fused event was emitted for it, its new state is
\* UP_IDLE, and none is UP_ACTIVE.
C14_E1OneIdleEvent ==
    \A i \in Ifaces :
        (_should_monitor(i) /\ E1Done(i)) =>
            /\ EventsOf(i, event_queue) = 1
            /\ \A j \in 1..Len(event_queue) :
                    event_queue[j].interface = i =>
                        event_queue[j].new_state = "idle"

\* The events of one interface in a sequence of events, in their order.
OfInterface(ifname, q) == SelectSeq(q, LAMBDA e : e.interface = ifname)

\* C27: for one interface, the StateChangeEvents handed to the event queue
\* (and, in the same task, to the callback) are in the order in which their
\* inputs were applied: they are the first of the events the inputs of that
\* interface produced, and the scheduled tasks hold the rest in that order.
C27_EmitsInInputOrder ==
    \A i \in Ifaces :
        LET handed == OfInterface(i, event_queue)
            made == OfInterface(i, applied)
        IN  /\ Len(handed) <= Len(made)
            /\ handed = SubSeq(made, 1, Len(handed))
            /\ OfInterface(i, emit_tasks) = SubSeq(made, Len(handed) + 1, Len(made))

\* C27 witness: two inputs of eth0 changed its state before either task ran,
\* and both different events are on the event queue now.
C27_Witness ==
    /\ Len(OfInterface("eth0", event_queue)) >= 2
    /\ OfInterface("eth0", event_queue)[1] # OfInterface("eth0", event_queue)[2]
    /\ emit_tasks = <<>>
    /\ n_inputs["eth0"] >= 2

\* C35: no fused state-change event is ever created, scheduled or queued
\* for an interface whose name matches an exclusion prefix, and no link
\* input of such an interface reaches the manager.
C35_ExcludedNeverEmits ==
    \A i \in Ifaces :
        ~_should_monitor(i) =>
            /\ EventsOf(i, applied) = 0
            /\ EventsOf(i, emit_tasks) = 0
            /\ EventsOf(i, event_queue) = 0

(***************************************************************************)
(*                                 BUS                                     *)
(***************************************************************************)

HistorySize == 3        \* EventBus history_size (constructor argument)
MaxPublish == 3         \* events published per run

SubIds == {"s1", "s2"}

EventTypes == {"link_state_change", "node_added", "node_removed",
               "link_added", "link_removed"}

\* The event_types arguments given to subscribe; {} stands for None and [].
FilterArgs == {{}, {"link_state_change"}, {"node_added"}}

NoData == [id |-> "-", old_state |-> "-", new_state |-> "-"]

\* event_bus.py Event; seq numbers the events in publish order.
Event(event_type, data, seq) == [type |-> event_type, data |-> data, seq |-> seq]

NoSubscriber == [status |-> "new", active |-> FALSE, any |-> FALSE,
                 types |-> {}, queue |-> <<>>]

\* Subscriber.__init__: `set(event_types) if event_types else None`
Subscriber(event_types) ==
    [status |-> "subscribed", active |-> TRUE, any |-> (event_types = {}),
     types |-> event_types, queue |-> <<>>]

\* Mutant of should_receive: the filter is not looked at.
should_receive_All(sub, event_type) == TRUE

\* Subscriber.should_receive
should_receive(sub, event_type) == sub.any \/ event_type \in sub.types

\* Mutant of put_nowait: the event goes to the front of the queue.
put_nowait_Front(queue, event) == <<event>> \o queue

\* subscriber.queue.put_nowait on asyncio.Queue(): maxsize 0, never full.
put_nowait(queue, event) == Append(queue, event)

\* deque(maxlen=history_size).append
history_append(h, event) ==
    IF Len(h) >= HistorySize THEN Append(Tail(h), event) ELSE Append(h, event)

InitBus ==
    /\ history = <<>>
    /\ event_count = 0
    /\ subscribers = [s \in SubIds |-> NoSubscriber]
    /\ observed = [s \in SubIds |-> <<>>]
    /\ offered = [s \in SubIds |-> <<>>]

\* The bus as one value.
bus_now == [history |-> history, event_count |-> event_count,
            subscribers |-> subscribers, offered |-> offered]

\* EventBus.publish on bus b: history, count, then every subscriber of the
\* set; an inactive one is dropped from the set, a matching one gets the event.
published(b, event_type, data) ==
    LET event == Event(event_type, data, b.event_count + 1)
    IN  [history |-> history_append(b.history, event),
         event_count |-> b.event_count + 1,
         subscribers |-> [s \in SubIds |->
                LET sub == b.subscribers[s]
                IN  IF sub.status # "subscribed" THEN sub
                    ELSE IF ~sub.active THEN [sub EXCEPT !.status = "detached"]
                    ELSE IF should_receive(sub, event_type)
                         THEN [sub EXCEPT !.queue = put_nowait(@, event)]
                    ELSE sub],
         offered |-> [s \in SubIds |->
                IF b.subscribers[s].status = "subscribed" /\ b.subscribers[s].active
                THEN Append(b.offered[s], event) ELSE b.offered[s]]]

\* EventBus.publish, which never suspends: one step.
publish(event_type, data) ==
    LET b == published(bus_now, event_type, data)
    IN  /\ history' = b.history
        /\ event_count' = b.event_count
        /\ subscribers' = b.subscribers
        /\ offered' = b.offered

\* EventBus.subscribe
Subscribe(s, event_types) ==
    /\ subscribers[s].status = "new"
    /\ subscribers' = [subscribers EXCEPT ![s] = Subscriber(event_types)]
    /\ UNCHANGED <<history, event_count, observed, offered>>

\* EventBus.unsubscribe: close, then discard from the set.
Unsubscribe(s) ==
    /\ subscribers[s].status # "new"
    /\ subscribers' = [subscribers EXCEPT ![s].active = FALSE,
                                          ![s].status = "detached"]
    /\ UNCHANGED <<history, event_count, observed, offered>>

\* Subscriber.close
Close(s) ==
    /\ subscribers[s].status # "new"
    /\ subscribers[s].active
    /\ subscribers' = [subscribers EXCEPT ![s].active = FALSE]
    /\ UNCHANGED <<history, event_count, observed, offered>>

\* Mutant of get_event: the _active flag is not looked at.
GetEvent_AfterClose(s) ==
    /\ subscribers[s].status # "new"
    /\ subscribers[s].queue # <<>>
    /\ observed' = [observed EXCEPT ![s] = Append(@, Head(subscribers[s].queue))]
    /\ subscribers' = [subscribers EXCEPT ![s].queue = Tail(@)]
    /\ UNCHANGED <<history, event_count, offered>>

\* Subscriber.get_event returning an event: the head of the queue.
GetEvent(s) ==
    /\ subscribers[s].status # "new"
    /\ subscribers[s].active
    /\ subscribers[s].queue # <<>>
    /\ observed' = [observed EXCEPT ![s] = Append(@, Head(subscribers[s].queue))]
    /\ subscribers' = [subscribers EXCEPT ![s].queue = Tail(@)]
    /\ UNCHANGED <<history, event_count, offered>>

\* A publish call made on the bus directly (routes, agents).
Publish(event_type) ==
    /\ event_count < MaxPublish
    /\ publish(event_type, NoData)
    /\ UNCHANGED observed

NextBus ==
    \/ \E s \in SubIds, f \in FilterArgs : Subscribe(s, f) /\ UNCHANGED notBus
    \/ \E s \in SubIds : Unsubscribe(s) /\ UNCHANGED notBus
    \/ \E s \in SubIds : Close(s) /\ UNCHANGED notBus
    \/ \E s \in SubIds : GetEvent(s) /\ UNCHANGED notBus
    \/ \E t \in {"link_state_change", "node_added"} : Publish(t) /\ UNCHANGED notBus

\* The seq numbers of a sequence of events rise strictly.
Rising(q) == \A j, k \in 1..Len(q) : j < k => q[j].seq < q[k].seq

\* C5: what a subscriber has been handed by get_event, followed by what still
\* waits in its queue, is in publish order: of two events it is given, the one
\* published first comes first.
C5_SubscriberSeesPublishOrder ==
    \A s \in SubIds : Rising(observed[s] \o subscribers[s].queue)

\* C5 witness: a subscriber was handed two events and a third one waits.
C5_Witness ==
    \E s \in SubIds : Len(observed[s]) = 2 /\ Len(subscribers[s].queue) = 1

\* asyncio.Queue() is made without a maxsize. A bound on the queue that
\* publish kept would show within a run once it is below the number of
\* events a run publishes.
QueueBound == MaxPublish - 1

\* C19: every subscriber's queue is bounded: it never holds more events
\* than its bound, publish dropping the event for a subscriber whose queue
\* is full.
C19_QueueBounded ==
    \A s \in SubIds : Len(subscribers[s].queue) <= QueueBound

\* The events of q that the event_types argument of subscribe lets through:
\* every event when no filter was given.
Matching(q, event_types) ==
    LET Test(e) == event_types = {} \/ e.type \in event_types
    IN  SelectSeq(q, Test)

Closed(s) == subscribers[s].status # "new" /\ ~subscribers[s].active

\* A step that is a publish call.
PublishStep == event_count' = event_count + 1

\* C40: once a subscriber is closed or unsubscribed, no step puts an event
\* on its queue and get_event hands it nothing; the next publish leaves no
\* closed subscriber in the subscriber set; and that publish still appends
\* the event to the queue of every other subscriber whose filter the event
\* matches.
C40_ClosedSubscriberGetsNothing ==
    [][ /\ \A s \in SubIds :
              Closed(s) => /\ subscribers'[s].queue = subscribers[s].queue
                           /\ observed'[s] = observed[s]
                           /\ ~subscribers'[s].active
        /\ PublishStep =>
              \A s \in SubIds :
                 /\ Closed(s) => subscribers'[s].status = "detached"
                 /\ (subscribers[s].status = "subscribed" /\ subscribers[s].active) =>
                       LET event == history'[Len(history')]
                           wanted == subscribers[s].types = {}
                                        \/ event.type \in subscribers[s].types
                       IN  subscribers'[s].queue =
                               IF wanted THEN Append(subscribers[s].queue, event)
                               ELSE subscribers[s].queue
      ]_vars

\* C40 witness: a subscriber took the first event, was closed with nothing
\* waiting, two more events were published and it is out of the set with
\* an empty queue, while the other subscriber was offered all three.
C40_Witness ==
    \E s, o \in SubIds :
        /\ s # o
        /\ Closed(s)
        /\ subscribers[s].status = "detached"
        /\ Len(offered[s]) = 1
        /\ Len(observed[s]) = 1
        /\ subscribers[s].queue = <<>>
        /\ event_count = 3
        /\ subscribers[o].active
        /\ Len(offered[o]) = 3
        /\ Len(observed[o] \o subscribers[o].queue) = 3

(***************************************************************************)
(*                                STORE                                    *)
(***************************************************************************)

MaxCalls == 3           \* store calls per run

\* api/models/schemas.py LinkState (DOWN and UNKNOWN have the values above)
ACTIVE == "active"
IDLE == "idle"
LinkStates == {ACTIVE, IDLE, DOWN, UNKNOWN}

\* The new_state arguments of the update_link_state calls.
UpdateStates == {ACTIVE, DOWN, UNKNOWN}

Node(id, lab) == [id |-> id, lab |-> lab]

\* schemas.Link: state defaults to UNKNOWN, metrics to LinkMetrics().
Link(id, lab, source_interface, target_interface) ==
    [id |-> id, lab |-> lab, source_interface |-> source_interface,
     target_interface |-> target_interface, state |-> UNKNOWN, metrics |-> "m0"]

\* The nodes and links callers hand to the store. dc1 and dc2 use the same
\* node and interface names; LinkC has LinkA's id on other interfaces.
NodeA == Node("dc1/a", "dc1")
NodeB == Node("dc2/a", "dc2")
LinkA == Link("dc1/a-b", "dc1", "e1", "e2")
LinkB == Link("dc2/a-b", "dc2", "e1", "e2")
LinkC == Link("dc1/a-b", "dc1", "e3", "e2")
NodeInputs == {NodeA, NodeB}
LinkInputs == {LinkA, LinkB, LinkC}
NodeIds == {n.id : n \in NodeInputs}
LinkIds == {l.id : l \in LinkInputs}
IfaceNames == {"e1", "e2", "e3"}
Labs == {"dc1", "dc2"}
MetricsArgs == {"none", "m1"}

\* initialize_topology arguments
Topologies ==
    { [nodes |-> <<NodeA>>, links |-> <<LinkA>>],
      [nodes |-> <<NodeA, NodeB>>, links |-> <<LinkA, LinkB>>] }

\* Characters of the agent's state tokens.
LowerOf == [c \in {"A", "C", "D", "E", "I", "L", "N", "O", "P", "T", "U", "V", "W"} |->
              CASE c = "A" -> "a" [] c = "C" -> "c" [] c = "D" -> "d"
                [] c = "E" -> "e" [] c = "I" -> "i" [] c = "L" -> "l"
                [] c = "N" -> "n" [] c = "O" -> "o" [] c = "P" -> "p"
                [] c = "T" -> "t" [] c = "U" -> "u" [] c = "V" -> "v"
                [] c = "W" -> "w"]

\* str.lower on a token, a sequence of characters
lower(token) ==
    [k \in 1..Len(token) |->
        IF token[k] \in DOMAIN LowerOf THEN LowerOf[token[k]] ELSE token[k]]

\* The InterfaceEvent.new_state tokens agents send.
Tokens ==
    { <<"d", "o", "w", "n">>, <<"D", "O", "W", "N">>,
      <<"a", "c", "t", "i", "v", "e">>, <<"U", "P", "_", "A", "C", "T", "I", "V", "E">>,
      <<"I", "d", "l", "e">>, <<"u", "p", "_", "i", "d", "l", "e">>,
      <<"u", "p">> }

\* Mutant of state_map: the lookup is done on the token as sent.
state_map_CaseSensitive(token) ==
    CASE token = <<"a", "c", "t", "i", "v", "e">> -> ACTIVE
      [] token = <<"i", "d", "l", "e">> -> IDLE
      [] token = <<"d", "o", "w", "n">> -> DOWN
      [] token = <<"u", "p", "_", "a", "c", "t", "i", "v", "e">> -> ACTIVE
      [] token = <<"u", "p", "_", "i", "d", "l", "e">> -> IDLE
      [] OTHER -> UNKNOWN

\* handle_agent_event: state_map.get(event.new_state.lower(), LinkState.UNKNOWN)
state_map(token) ==
    LET t == lower(token)
    IN  CASE t = <<"a", "c", "t", "i", "v", "e">> -> ACTIVE
          [] t = <<"i", "d", "l", "e">> -> IDLE
          [] t = <<"d", "o", "w", "n">> -> DOWN
          [] t = <<"u", "p", "_", "a", "c", "t", "i", "v", "e">> -> ACTIVE
          [] t = <<"u", "p", "_", "i", "d", "l", "e">> -> IDLE
          [] OTHER -> UNKNOWN

NoEvent == [type |-> "none", data |-> NoData]

NoCall == [op |-> "none", key |-> "-", arg |-> <<>>, metrics |-> "none",
           found |-> FALSE, old_state |-> "-", link_id |-> "-", count_before |-> 0,
           before |-> {}]

InitStore ==
    /\ nodes = <<>>
    /\ links = <<>>
    /\ interface_to_link = <<>>
    /\ store_lock = FALSE
    /\ store_pc = "idle"
    /\ store_pending = NoEvent
    /\ last_call = NoCall
    /\ prev_call = NoCall
    /\ n_calls = 0
    /\ commit_log = <<>>

\* dict operations
dict_set(d, k, v) == (k :> v) @@ d
dict_pop(d, k) == [x \in (DOMAIN d) \ {k} |-> d[x]]

\* The index after the writes of add_link / initialize_topology for one link.
index_link(index, link) ==
    dict_set(dict_set(index, link.source_interface, link.id),
             link.target_interface, link.id)

\* LinkStateService.get_link_by_interface: the link, or NoLink for None.
NoLink == [id |-> "-"]
get_link_by_interface(interface) ==
    IF interface \in DOMAIN interface_to_link
    THEN IF interface_to_link[interface] \in DOMAIN links
         THEN links[interface_to_link[interface]] ELSE NoLink
    ELSE NoLink

\* LinkStateService.get_all_links
get_all_links == {links[k] : k \in DOMAIN links}

\* Mutant of Enter: a call may begin while another has left the lock and has
\* not published yet.
Enter_Preempts(op, key, arg, metrics, found, old_state, link_id) ==
    /\ store_pc \in {"idle", "released"}
    /\ ~store_lock
    /\ n_calls < MaxCalls
    /\ n_calls' = n_calls + 1
    /\ prev_call' = last_call
    /\ last_call' = [op |-> op, key |-> key, arg |-> arg, metrics |-> metrics,
                     found |-> found, old_state |-> old_state,
                     link_id |-> link_id, count_before |-> event_count,
                     before |-> {}]

\* A store coroutine begins: it takes the free lock without suspending. From
\* there to the end of its publish it has no point of suspension (a free
\* asyncio.Lock and EventBus.publish do not yield), so no other call runs
\* in between.
Enter(op, key, arg, metrics, found, old_state, link_id) ==
    /\ store_pc = "idle"
    /\ ~store_lock
    /\ n_calls < MaxCalls
    /\ n_calls' = n_calls + 1
    /\ prev_call' = last_call
    /\ last_call' = [op |-> op, key |-> key, arg |-> arg, metrics |-> metrics,
                     found |-> found, old_state |-> old_state,
                     link_id |-> link_id, count_before |-> event_count,
                     before |-> IF op = "clear_lab"
                                THEN DOMAIN nodes \cup DOMAIN links ELSE {}]

\* The body of `async with self._lock` is done and the lock still held.
Locked(pending) ==
    /\ store_lock' = TRUE
    /\ store_pc' = "locked"
    /\ store_pending' = pending
    /\ commit_log' = IF pending # NoEvent THEN Append(commit_log, pending)
                     ELSE commit_log

\* A call that returns from inside the lock without a change.
ReturnsNone ==
    /\ UNCHANGED <<nodes, links, interface_to_link, store_lock, store_pc,
                   store_pending, commit_log>>

\* Mutant of state_event: the states are compared after the assignment.
state_event_AfterWrite(link_id, old_state, new_state, source) ==
    IF new_state # new_state
    THEN [type |-> "link_state_change",
          data |-> [id |-> link_id, old_state |-> old_state, new_state |-> new_state]]
    ELSE NoEvent

\* update_link_state, lines 122-139: the event, if the state changed.
state_event(link_id, old_state, new_state, source) ==
    IF old_state # new_state
    THEN [type |-> "link_state_change",
          data |-> [id |-> link_id, old_state |-> old_state, new_state |-> new_state]]
    ELSE NoEvent

\* update_link_state, lines 107-120, on a link that is there.
apply_link_state(link_id, new_state, metrics, source) ==
    LET link == links[link_id]
        old_state == link.state
    IN  /\ links' = [links EXCEPT ![link_id] =
                [link EXCEPT !.state = new_state,
                             !.metrics = IF metrics # "none" THEN metrics ELSE @]]
        /\ UNCHANGED <<nodes, interface_to_link>>
        /\ Locked(state_event(link_id, old_state, new_state, source))

\* LinkStateService.update_link_state
update_link_state(link_id, new_state, metrics) ==
    IF link_id \in DOMAIN links
    THEN /\ Enter("update_link_state", link_id, <<new_state>>, metrics, TRUE,
                  links[link_id].state, link_id)
         /\ apply_link_state(link_id, new_state, metrics, "agent")
    ELSE /\ Enter("update_link_state", link_id, <<new_state>>, metrics, FALSE,
                  "-", "-")
         /\ ReturnsNone

\* LinkStateService.handle_agent_event
handle_agent_event(interface, token) ==
    LET link == get_link_by_interface(interface)
    IN  IF link = NoLink
        THEN /\ Enter("handle_agent_event", interface, token, "none", FALSE, "-", "-")
             /\ ReturnsNone
        ELSE /\ Enter("handle_agent_event", interface, token, "none", TRUE,
                      link.state, link.id)
             /\ apply_link_state(link.id, state_map(token), "none", "agent")

\* Mutant of update_link_metrics: a link that is not there is made.
update_link_metrics_Upsert(link_id, metrics) ==
    /\ Enter("update_link_metrics", link_id, <<>>, metrics,
             link_id \in DOMAIN links, "-", link_id)
    /\ links' = IF link_id \in DOMAIN links
                THEN [links EXCEPT ![link_id].metrics = metrics]
                ELSE dict_set(links, link_id,
                              [Link(link_id, "-", "-", "-") EXCEPT !.metrics = metrics])
    /\ UNCHANGED <<nodes, interface_to_link>>
    /\ Locked(NoEvent)

\* LinkStateService.update_link_metrics
update_link_metrics(link_id, metrics) ==
    /\ Enter("update_link_metrics", link_id, <<>>, metrics,
             link_id \in DOMAIN links, "-", link_id)
    /\ links' = IF link_id \in DOMAIN links
                THEN [links EXCEPT ![link_id].metrics = metrics] ELSE links
    /\ UNCHANGED <<nodes, interface_to_link>>
    /\ Locked(NoEvent)

\* LinkStateService.initialize_topology
initialize_topology(t) ==
    /\ Enter("initialize_topology", "-", <<>>, "none", TRUE, "-", "-")
    /\ nodes' = [id \in {t.nodes[k].id : k \in 1..Len(t.nodes)} |->
                    LET k == CHOOSE k \in 1..Len(t.nodes) :
                                /\ t.nodes[k].id = id
                                /\ \A j \in k+1..Len(t.nodes) : t.nodes[j].id # id
                    IN  t.nodes[k]]
    /\ links' = [id \in {t.links[k].id : k \in 1..Len(t.links)} |->
                    LET k == CHOOSE k \in 1..Len(t.links) :
                                /\ t.links[k].id = id
                                /\ \A j \in k+1..Len(t.links) : t.links[j].id # id
                    IN  t.links[k]]
    /\ interface_to_link' =
            LET RECURSIVE build(_, _)
                build(index, k) ==
                    IF k > Len(t.links) THEN index
                    ELSE build(index_link(index, t.links[k]), k + 1)
            IN  build(<<>>, 1)
    /\ Locked(NoEvent)

\* LinkStateService.add_node
add_node(node) ==
    /\ Enter("add_node", node.id, <<>>, "none", TRUE, "-", "-")
    /\ nodes' = dict_set(nodes, node.id, node)
    /\ UNCHANGED <<links, interface_to_link>>
    /\ Locked([type |-> "node_added", data |-> [NoData EXCEPT !.id = node.id]])

\* Mutant of add_link_index: only the source interface is indexed.
add_link_index_SourceOnly(index, link) ==
    dict_set(index, link.source_interface, link.id)

\* add_link, lines 210-211
add_link_index(index, link) == index_link(index, link)

\* LinkStateService.add_link
add_link(link) ==
    /\ Enter("add_link", link.id, <<>>, "none", TRUE, "-", link.id)
    /\ links' = dict_set(links, link.id, link)
    /\ interface_to_link' = add_link_index(interface_to_link, link)
    /\ UNCHANGED nodes
    /\ Locked([type |-> "link_added", data |-> [NoData EXCEPT !.id = link.id]])

\* LinkStateService.remove_node
remove_node(node_id) ==
    /\ Enter("remove_node", node_id, <<>>, "none", node_id \in DOMAIN nodes, "-", "-")
    /\ nodes' = dict_pop(nodes, node_id)
    /\ UNCHANGED <<links, interface_to_link>>
    /\ Locked([type |-> "node_removed", data |-> [NoData EXCEPT !.id = node_id]])

\* LinkStateService.remove_link
remove_link(link_id) ==
    /\ Enter("remove_link", link_id, <<>>, "none", link_id \in DOMAIN links, "-", link_id)
    /\ links' = dict_pop(links, link_id)
    /\ interface_to_link' =
            IF link_id \in DOMAIN links
            THEN dict_pop(dict_pop(interface_to_link, links[link_id].source_interface),
                          links[link_id].target_interface)
            ELSE interface_to_link
    /\ UNCHANGED nodes
    /\ Locked([type |-> "link_removed", data |-> [NoData EXCEPT !.id = link_id]])

\* LinkStateService has no clear_lab attribute: the call made by
\* LabService.delete_lab and by the tests raises AttributeError.
clear_lab(lab) ==
    /\ Enter("clear_lab", lab, <<>>, "none", FALSE, "-", "-")
    /\ ReturnsNone

\* Nor has it get_labs or get_topology_by_lab: both calls raise.
get_labs == [raised |-> "AttributeError", labs |-> {}]
get_topology_by_lab(lab) ==
    [raised |-> "AttributeError", node_ids |-> {}, link_ids |-> {}]

\* Mutant of StoreRelease: the coroutine goes on to publish inside the lock.
StoreRelease_KeepsLock ==
    /\ store_pc = "locked"
    /\ store_lock' = TRUE
    /\ store_pc' = "released"
    /\ UNCHANGED <<nodes, links, interface_to_link, store_pending, last_call,
                   prev_call, n_calls, commit_log>>

\* `async with self._lock` is left.
StoreRelease ==
    /\ store_pc = "locked"
    /\ store_lock' = FALSE
    /\ store_pc' = "released"
    /\ UNCHANGED <<nodes, links, interface_to_link, store_pending, last_call,
                   prev_call, n_calls, commit_log>>

\* await get_event_bus().publish(...), after the lock
StorePublish ==
    /\ store_pc = "released"
    /\ store_pending # NoEvent
    /\ publish(store_pending.type, store_pending.data)
    /\ store_pc' = "idle"
    /\ store_pending' = NoEvent
    /\ UNCHANGED <<nodes, links, interface_to_link, store_lock, last_call,
                   prev_call, n_calls, commit_log, observed>>

\* return without an event
StoreReturn ==
    /\ store_pc = "released"
    /\ store_pending = NoEvent
    /\ store_pc' = "idle"
    /\ UNCHANGED <<nodes, links, interface_to_link, store_lock, store_pending,
                   last_call, prev_call, n_calls, commit_log>>
    /\ UNCHANGED busVars

NextStore ==
    \/ \E id \in LinkIds, st \in UpdateStates, m \in MetricsArgs :
            update_link_state(id, st, m) /\ UNCHANGED <<busVars, notStore>>
    \/ \E i \in IfaceNames, t \in Tokens :
            handle_agent_event(i, t) /\ UNCHANGED <<busVars, notStore>>
    \/ \E id \in LinkIds :
            update_link_metrics(id, "m1") /\ UNCHANGED <<busVars, notStore>>
    \/ \E t \in Topologies : initialize_topology(t) /\ UNCHANGED <<busVars, notStore>>
    \/ \E n \in NodeInputs : add_node(n) /\ UNCHANGED <<busVars, notStore>>
    \/ \E l \in LinkInputs : add_link(l) /\ UNCHANGED <<busVars, notStore>>
    \/ \E id \in NodeIds : remove_node(id) /\ UNCHANGED <<busVars, notStore>>
    \/ \E id \in LinkIds : remove_link(id) /\ UNCHANGED <<busVars, notStore>>
    \/ \E lab \in Labs : clear_lab(lab) /\ UNCHANGED <<busVars, notStore>>
    \/ StoreRelease /\ UNCHANGED <<busVars, notStore>>
    \/ StorePublish /\ UNCHANGED notStore
    \/ StoreReturn /\ UNCHANGED notStore

\* C28: in every step of a mutating store operation, the lock is held exactly
\* while the coroutine is in the body of `async with self._lock`; when it
\* stands before EventBus.publish the lock is free, and the step in which an
\* event is published begins and ends with the lock free.
C28_PublishOutsideLock ==
    [][ /\ store_lock' <=> store_pc' = "locked"
        /\ (store_pc' = "released" /\ store_pending' # NoEvent) => ~store_lock'
        /\ event_count' # event_count => ~store_lock /\ ~store_lock' ]_vars

\* C28 witness: after an event was published, a second mutation has left the
\* lock and is about to publish its event.
C28_Witness ==
    /\ store_pc = "released"
    /\ store_pending # NoEvent
    /\ ~store_lock
    /\ event_count >= 1
    /\ n_calls >= 2

\* The call last made has returned.
Returned(op) == store_pc = "idle" /\ last_call.op = op

\* The updates that name an entity.
UpdateOps == {"update_link_state", "update_link_metrics", "handle_agent_event"}

\* C22: in every step of an update that names a link id not in the store, or
\* an interface with no link in the index, nodes, links and the index stay
\* as they are, no event is published or left to publish, and the call
\* gives the no-change result.
C22_UnknownEntityIgnored ==
    [][ (last_call'.op \in UpdateOps /\ ~last_call'.found) =>
            /\ nodes' = nodes /\ links' = links
            /\ interface_to_link' = interface_to_link
            /\ store_pending' = NoEvent
            /\ event_count' = last_call'.count_before
            /\ history' = history ]_vars

\* C22 witness: the store holds a link that was changed, and an agent event
\* for an interface that is not in the index has returned.
C22_Witness ==
    /\ Returned("handle_agent_event")
    /\ ~last_call.found
    /\ last_call.key \notin DOMAIN interface_to_link
    /\ DOMAIN links # {}
    /\ prev_call.op = "update_link_state" /\ prev_call.found
    /\ event_count > 0

\* C25: an add_link call for a link id the store already holds leaves the
\* link stored under that id, with its state and metrics, and the index as
\* they are.
C25_DuplicateLinkKept ==
    [][ (n_calls' = n_calls + 1 /\ last_call'.op = "add_link"
            /\ last_call'.key \in DOMAIN links) =>
                /\ links' = links
                /\ interface_to_link' = interface_to_link ]_vars

\* The mutations that publish, run by tasks of one event loop, with
\* subscribers that take every event.
NextCommit ==
    \/ \E s \in SubIds : Subscribe(s, {}) /\ UNCHANGED notBus
    \/ \E id \in LinkIds, st \in UpdateStates :
            update_link_state(id, st, "none") /\ UNCHANGED <<busVars, notStore>>
    \/ \E n \in NodeInputs : add_node(n) /\ UNCHANGED <<busVars, notStore>>
    \/ \E l \in LinkInputs : add_link(l) /\ UNCHANGED <<busVars, notStore>>
    \/ \E id \in NodeIds : remove_node(id) /\ UNCHANGED <<busVars, notStore>>
    \/ \E id \in LinkIds : remove_link(id) /\ UNCHANGED <<busVars, notStore>>
    \/ StoreRelease /\ UNCHANGED <<busVars, notStore>>
    \/ StorePublish /\ UNCHANGED notStore
    \/ StoreReturn /\ UNCHANGED notStore

\* Every event of q is the commit whose place in commit_log is its seq.
OfCommits(q) ==
    \A j \in 1..Len(q) :
        /\ q[j].seq \in 1..Len(commit_log)
        /\ commit_log[q[j].seq] = [type |-> q[j].type, data |-> q[j].data]

\* C21: the events of the store's mutations are on the bus in the order the
\* mutations were committed under the lock: the k-th event published is the
\* k-th commit, at most the latest commit is not published yet, and the
\* history and every subscriber's queue hold their events in that order.
C21_EventsInCommitOrder ==
    /\ Len(commit_log) = event_count + (IF store_pending # NoEvent THEN 1 ELSE 0)
    /\ OfCommits(history) /\ Rising(history)
    /\ \A s \in SubIds :
            /\ OfCommits(subscribers[s].queue)
            /\ Rising(subscribers[s].queue)

\* C21 witness: three mutations of different kinds were committed and
\* published, and a subscriber has the events of the last two.
C21_Witness ==
    /\ Len(commit_log) = 3
    /\ event_count = 3
    /\ commit_log[1].type # commit_log[2].type
    /\ commit_log[2].type # commit_log[3].type
    /\ Len(history) = 3
    /\ \E s \in SubIds : Len(subscribers[s].queue) = 2

\* The table of the store contract, on the tokens agents send.
ActiveTokens == { <<"a", "c", "t", "i", "v", "e">>,
                  <<"U", "P", "_", "A", "C", "T", "I", "V", "E">> }
IdleTokens == { <<"I", "d", "l", "e">>, <<"u", "p", "_", "i", "d", "l", "e">> }
DownTokens == { <<"d", "o", "w", "n">>, <<"D", "O", "W", "N">> }
TableState(token) ==
    IF token \in ActiveTokens THEN ACTIVE
    ELSE IF token \in IdleTokens THEN IDLE
    ELSE IF token \in DownTokens THEN DOWN
    ELSE UNKNOWN

\* The events published since the last call began.
EventsOfLastCall == event_count - last_call.count_before

\* The last published event is the state change of link id to state st.
LastEventIs(id, old, st) ==
    /\ history # <<>>
    /\ history[Len(history)].type = "link_state_change"
    /\ history[Len(history)].data = [id |-> id, old_state |-> old, new_state |-> st]

\* C3: when handle_agent_event has returned, the link it acted on is the one
\* the interface->link index gives for the event's interface (none if the
\* index has no entry or the entry's link is gone), that link's state is the
\* table's state for the token, whatever its letter case; one
\* link_state_change event with that state was published if the state
\* differed from the link's state before, none otherwise; and the second of
\* two identical agent events in a row published none.
C3_AgentEventMapsAndEmitsOnce ==
    Returned("handle_agent_event") =>
        LET iface == last_call.key
            st == TableState(last_call.arg)
            indexed == /\ iface \in DOMAIN interface_to_link
                       /\ interface_to_link[iface] \in DOMAIN links
        IN  /\ last_call.found = indexed
            /\ ~indexed => EventsOfLastCall = 0
            /\ indexed =>
                /\ last_call.link_id = interface_to_link[iface]
                /\ links[last_call.link_id].state = st
                /\ IF last_call.old_state # st
                   THEN /\ EventsOfLastCall = 1
                        /\ LastEventIs(last_call.link_id, last_call.old_state, st)
                   ELSE EventsOfLastCall = 0
                /\ ( /\ prev_call.op = "handle_agent_event"
                     /\ prev_call.key = iface
                     /\ prev_call.arg = last_call.arg
                     /\ prev_call.found )
                   => EventsOfLastCall = 0

\* C3 witness: an upper-case DOWN token on an indexed interface has put a
\* new link DOWN with one event, and the same event sent again has returned
\* without one.
C3_Witness ==
    /\ Returned("handle_agent_event")
    /\ last_call.found
    /\ last_call.arg = <<"D", "O", "W", "N">>
    /\ prev_call.op = "handle_agent_event"
    /\ prev_call.key = last_call.key
    /\ prev_call.arg = last_call.arg
    /\ prev_call.found
    /\ prev_call.old_state = UNKNOWN
    /\ event_count = prev_call.count_before + 1
    /\ links[last_call.link_id].state = DOWN

\* C4: when update_link_state(id, s) has returned for a link of the store, it
\* published one link_state_change event if s differed from the state the
\* link had when the update was applied and none if it did not; two such
\* calls in a row with the same id and s published at most one event
\* together; and a call that changed no state applied the metrics it was
\* given.
C4_UpdateEmitsIffChanged ==
    (Returned("update_link_state") /\ last_call.found) =>
        LET id == last_call.key
            s == last_call.arg[1]
        IN  /\ links[id].state = s
            /\ IF last_call.old_state # s
               THEN /\ EventsOfLastCall = 1
                    /\ LastEventIs(id, last_call.old_state, s)
               ELSE EventsOfLastCall = 0
            /\ ( /\ prev_call.op = "update_link_state"
                 /\ prev_call.key = id
                 /\ prev_call.arg = last_call.arg
                 /\ prev_call.found )
               => event_count - prev_call.count_before <= 1
            /\ last_call.metrics # "none" => links[id].metrics = last_call.metrics

\* C4 witness: the second of two equal updates in a row has returned; the
\* first published the one event, the second none and applied its metrics.
C4_Witness ==
    /\ Returned("update_link_state")
    /\ last_call.found
    /\ last_call.metrics = "m1"
    /\ prev_call.op = "update_link_state"
    /\ prev_call.key = last_call.key
    /\ prev_call.arg = last_call.arg
    /\ prev_call.found
    /\ prev_call.metrics = "none"
    /\ event_count = prev_call.count_before + 1
    /\ EventsOfLastCall = 0
    /\ links[last_call.key].metrics = "m1"

\* The index gives link l for both of l's interface names.
Indexed(l) ==
    /\ l.source_interface \in DOMAIN interface_to_link
    /\ interface_to_link[l.source_interface] = l.id
    /\ l.target_interface \in DOMAIN interface_to_link
    /\ interface_to_link[l.target_interface] = l.id
    /\ get_link_by_interface(l.source_interface) = l
    /\ get_link_by_interface(l.target_interface) = l

\* C6: after any sequence of initialize_topology, add_link and remove_link,
\* every link the store holds has its source and its target interface as
\* keys of the interface->link index, both mapped to the link's id, and
\* get_link_by_interface on either name returns the link.
C6_IndexCoversLinks ==
    \A id \in DOMAIN links : Indexed(links[id])

\* C38: after any sequence of initialize_topology, add_link and remove_link,
\* every entry of the interface->link index names a link the store holds,
\* and that link has the entry's interface as its source or its target.
C38_IndexHasNoStaleEntry ==
    \A i \in DOMAIN interface_to_link :
        LET id == interface_to_link[i]
        IN  /\ id \in DOMAIN links
            /\ i \in {links[id].source_interface, links[id].target_interface}

\* The lab an entity of the inputs is tagged with.
TagOf(id) == IF id \in {NodeA.id, LinkA.id} THEN "dc1" ELSE "dc2"

\* C7: when clear_lab(L1) has returned in a store that held the nodes and
\* links of both labs, the store holds no node and no link tagged L1, every
\* node and link of the other lab is still there, get_labs no longer lists
\* L1, and the index is consistent with the links that remain.
C7_ClearLabLeavesOtherLab ==
    ( /\ Returned("clear_lab")
      /\ {NodeA.id, NodeB.id, LinkA.id, LinkB.id} \subseteq last_call.before ) =>
        /\ DOMAIN nodes \cup DOMAIN links =
                {id \in last_call.before : TagOf(id) # last_call.key}
        /\ \A id \in DOMAIN links : links[id].lab # last_call.key
        /\ \A id \in DOMAIN nodes : nodes[id].lab # last_call.key
        /\ get_labs.raised = "none"
        /\ last_call.key \notin get_labs.labs
        /\ \A id \in DOMAIN links : Indexed(links[id])

(***************************************************************************)
(*                                 LAB                                     *)
(***************************************************************************)

MaxDeploys == 2         \* deploy_lab calls per run

\* api/models/schemas.py LabStatus
PENDING == "pending"
DEPLOYING == "deploying"
FAILED == "failed"
RUNNING == "running"
DELETED == "deleted"

\* LabDeployRequest.name is any string.
LabNames == {"dc1", "dc2", "dc1/x"}

\* What yaml.safe_load gives for the request's containerlab_yaml. An endpoint
\* string is written as the sequence of its pieces between the ':' characters
\* ("a:e1" is <<"a", "e1">>, "a" is <<"a">>, ":e1" is <<"", "e1">>).
Topology(node_names, link_endpoints) ==
    [shape |-> "ok", nodes |-> node_names, links |-> link_endpoints]

\* lab-dc1.yaml / lab-dc2.yaml: the same node and interface names in both labs
TopoPair == Topology(<<"a", "b">>, << << <<"a", "e1">>, <<"b", "e2">> >> >>)

\* two links between the same two nodes
TopoParallel ==
    Topology(<<"a", "b">>, << << <<"a", "e1">>, <<"b", "e2">> >>,
                              << <<"a", "e3">>, <<"b", "e4">> >> >>)

\* links the parser skips: one endpoint, an endpoint without ':', an empty part
TopoSkips ==
    Topology(<<"a">>, << << <<"a", "e1">> >>,
                         << <<"a", "e1">>, <<"b">> >>,
                         << <<"", "e1">>, <<"b", "e2">> >>,
                         << <<"a", "e1", "0">>, <<"a", "e2">> >> >>)

\* a node name with a '/'
TopoSlash == Topology(<<"x/a">>, <<>>)

\* text that is no mapping, or has no topology section
TopoInvalid == [shape |-> "no_topology", nodes |-> <<>>, links |-> <<>>]

YamlInputs == {TopoPair, TopoParallel, TopoSkips, TopoSlash, TopoInvalid}

\* str.split(":", 1)[1]: the pieces after the first, joined again
RECURSIVE join(_)
join(parts) ==
    IF Len(parts) = 1 THEN parts[1] ELSE parts[1] \o ":" \o join(Tail(parts))

\* ContainerlabParser._parse_endpoint
_parse_endpoint(endpoint) ==
    IF Len(endpoint) < 2
    THEN [raised |-> TRUE, node |-> "", iface |-> ""]
    ELSE IF endpoint[1] = "" \/ join(Tail(endpoint)) = ""
         THEN [raised |-> TRUE, node |-> "", iface |-> ""]
         ELSE [raised |-> FALSE, node |-> endpoint[1], iface |-> join(Tail(endpoint))]

\* f"{lab_name}/{node_name}"
node_id(lab_name, node_name) == lab_name \o "/" \o node_name

\* f"{lab_name}/{source_node}-{target_node}"
link_id(lab_name, source_node, target_node) ==
    lab_name \o "/" \o source_node \o "-" \o target_node

\* ContainerlabParser._parse_nodes
_parse_nodes(topology, lab_name) ==
    [k \in 1..Len(topology.nodes) |->
        Node(node_id(lab_name, topology.nodes[k]), lab_name)]

\* ContainerlabParser._parse_links
RECURSIVE parse_link_list(_, _)
parse_link_list(links_section, lab_name) ==
    IF links_section = <<>> THEN <<>>
    ELSE LET endpoints == Head(links_section)
             rest == parse_link_list(Tail(links_section), lab_name)
         IN  IF Len(endpoints) # 2 THEN rest
             ELSE LET s == _parse_endpoint(endpoints[1])
                      t == _parse_endpoint(endpoints[2])
                  IN  IF s.raised \/ t.raised THEN rest
                      ELSE <<Link(link_id(lab_name, s.node, t.node), lab_name,
                                  s.iface, t.iface)>> \o rest

_parse_links(topology, lab_name) == parse_link_list(topology.links, lab_name)

\* ContainerlabParser.parse
parse(yaml_content, lab_name) ==
    IF yaml_content.shape # "ok"
    THEN [raised |-> "ValueError", nodes |-> <<>>, links |-> <<>>]
    ELSE [raised |-> "none", nodes |-> _parse_nodes(yaml_content, lab_name),
          links |-> _parse_links(yaml_content, lab_name)]

NoParse == [count |-> 0, nodes |-> <<>>, links |-> <<>>]
NoResult == [lab |-> "-", outcome |-> "none", node_ids |-> <<>>, link_ids |-> <<>>,
             yaml |-> "-", k8s |-> "-", events_before |-> 0, ids_before |-> {},
             watched |-> FALSE]

NoDelete == [lab |-> "-", outcome |-> "none", k8s |-> "-", deploys |-> 0,
             alone |-> FALSE]

NoWatch == [lab |-> "-", op |-> "none", status |-> "-"]

InitLab ==
    /\ lab_records = <<>>
    /\ status_watchers = {}
    /\ crds = {}
    /\ deploying = {}
    /\ n_deploys = 0
    /\ deploy_result = NoResult
    /\ parsed = [l \in LabNames |-> NoParse]
    /\ deleting = {}
    /\ delete_result = NoDelete
    /\ last_watch = NoWatch

\* The store and the bus as one value, for the calls deploy_lab makes in a row.
store_now == [nodes |-> nodes, links |-> links, index |-> interface_to_link,
              bus |-> bus_now, log |-> commit_log]

\* add_node and add_link as deploy_lab awaits them: neither suspends.
added_node(st, node) ==
    [st EXCEPT !.nodes = dict_set(@, node.id, node),
               !.log = Append(@, [type |-> "node_added",
                                  data |-> [NoData EXCEPT !.id = node.id]]),
               !.bus = published(@, "node_added", [NoData EXCEPT !.id = node.id])]
added_link(st, link) ==
    [st EXCEPT !.links = dict_set(@, link.id, link),
               !.index = add_link_index(@, link),
               !.log = Append(@, [type |-> "link_added",
                                  data |-> [NoData EXCEPT !.id = link.id]]),
               !.bus = published(@, "link_added", [NoData EXCEPT !.id = link.id])]

\* deploy_lab, lines 117-128: the two import loops
RECURSIVE import_nodes(_, _)
import_nodes(st, node_list) ==
    IF node_list = <<>> THEN st
    ELSE import_nodes(added_node(st, Head(node_list)), Tail(node_list))
RECURSIVE import_links(_, _)
import_links(st, link_list) ==
    IF link_list = <<>> THEN st
    ELSE import_links(added_link(st, Head(link_list)), Tail(link_list))

ids_of(entity_list) == [k \in 1..Len(entity_list) |-> entity_list[k].id]

\* deploy_lab with containerlab_yaml that does not parse: ValueError is raised
\* before anything is recorded.
DeployRejected(lab_name, yaml_content) ==
    /\ n_deploys < MaxDeploys
    /\ parse(yaml_content, lab_name).raised # "none"
    /\ n_deploys' = n_deploys + 1
    /\ deploy_result' = [NoResult EXCEPT !.lab = lab_name, !.outcome = "ValueError",
                                         !.yaml = yaml_content,
                                         !.events_before = event_count,
                                         !.ids_before = DOMAIN nodes \cup DOMAIN links]
    /\ UNCHANGED <<lab_records, status_watchers, crds, deploying, parsed,
                   deleting, delete_result, last_watch>>

\* deploy_lab, lines 62-100: parse, record the lab as PENDING, call
\* k8s.create_topology and wait for it.
DeployBegin(lab_name, yaml_content) ==
    LET p == parse(yaml_content, lab_name)
    IN  /\ n_deploys < MaxDeploys
        /\ p.raised = "none"
        /\ n_deploys' = n_deploys + 1
        /\ lab_records' = dict_set(lab_records, lab_name,
                [status |-> PENDING, owner |-> n_deploys + 1,
                 nodes_count |-> Len(p.nodes), links_count |-> Len(p.links)])
        /\ deploying' = deploying \cup
                {[d |-> n_deploys + 1, lab |-> lab_name, nodes |-> p.nodes,
                  links |-> p.links, yaml |-> yaml_content]}
        /\ UNCHANGED <<status_watchers, crds, deploy_result, parsed, deleting,
                       delete_result, last_watch>>

\* deploy_lab, lines 101-147: create_topology has created the CRD, found it
\* there (409, ValueError) or failed otherwise; then the import, the watcher
\* and the response. The status goes to the Lab object this call created,
\* which _labs still holds unless a later call replaced it.
DeployFinish(dep, k8s_outcome) ==
    LET status == IF k8s_outcome = "created" THEN DEPLOYING ELSE FAILED
        st == import_links(import_nodes(store_now, dep.nodes), dep.links)
    IN  /\ dep \in deploying
        /\ store_pc = "idle"
        /\ k8s_outcome = "created" => dep.lab \notin crds
        /\ k8s_outcome = "conflict" => dep.lab \in crds
        /\ crds' = IF k8s_outcome = "created" THEN crds \cup {dep.lab} ELSE crds
        /\ lab_records' =
                IF dep.lab \in DOMAIN lab_records /\ lab_records[dep.lab].owner = dep.d
                THEN [lab_records EXCEPT ![dep.lab].status = status]
                ELSE lab_records
        /\ nodes' = st.nodes
        /\ links' = st.links
        /\ interface_to_link' = st.index
        /\ commit_log' = st.log
        /\ history' = st.bus.history
        /\ event_count' = st.bus.event_count
        /\ subscribers' = st.bus.subscribers
        /\ offered' = st.bus.offered
        /\ status_watchers' = IF status = DEPLOYING
                              THEN status_watchers \cup {dep.lab} ELSE status_watchers
        /\ deploying' = deploying \ {dep}
        /\ deploy_result' = [lab |-> dep.lab, outcome |-> status,
                             node_ids |-> ids_of(dep.nodes),
                             link_ids |-> ids_of(dep.links),
                             yaml |-> dep.yaml, k8s |-> k8s_outcome,
                             events_before |-> event_count,
                             ids_before |-> DOMAIN nodes \cup DOMAIN links,
                             watched |-> (status = DEPLOYING)]
        /\ parsed' = [parsed EXCEPT ![dep.lab] =
                        [count |-> @.count + 1, nodes |-> dep.nodes,
                         links |-> dep.links]]
        /\ UNCHANGED <<n_deploys, observed, store_lock, store_pc, store_pending,
                       last_call, prev_call, n_calls, deleting, delete_result,
                       last_watch>>

\* delete_lab, lines 217-228, for a lab that has a record: cancel the
\* watcher, call k8s.delete_topology and wait for it.
DeleteBegin(name) ==
    /\ name \in DOMAIN lab_records
    /\ name \notin deleting
    /\ status_watchers' = status_watchers \ {name}
    /\ deleting' = deleting \cup {name}
    /\ UNCHANGED <<lab_records, crds, deploying, n_deploys, deploy_result,
                   parsed, delete_result, last_watch>>

\* delete_lab, lines 228-238: delete_topology has deleted the CRD, found none
\* (404, False) or raised; then link_service.clear_lab(name), which
\* LinkStateService does not have: AttributeError, and `del self._labs[name]`
\* is not reached.
DeleteFinish(name, k8s_outcome) ==
    /\ name \in deleting
    /\ k8s_outcome = "deleted" => name \in crds
    /\ k8s_outcome = "not_found" => name \notin crds
    /\ deleting' = deleting \ {name}
    /\ crds' = IF k8s_outcome = "deleted" THEN crds \ {name} ELSE crds
    /\ delete_result' = [lab |-> name,
                         outcome |-> IF k8s_outcome = "error" THEN "ApiException"
                                     ELSE "AttributeError",
                         k8s |-> k8s_outcome, deploys |-> n_deploys,
                         alone |-> (deploying = {})]
    /\ UNCHANGED <<lab_records, status_watchers, deploying, n_deploys,
                   deploy_result, parsed, last_watch>>

\* The statuses k8s.watch_topology_status yields.
WatchedStatuses == {DEPLOYING, RUNNING, FAILED, DELETED}

\* `if status in (LabStatus.RUNNING, LabStatus.FAILED, LabStatus.DELETED)`
is_terminal(status) == status \in {RUNNING, FAILED, DELETED}

\* watch_status, one round of its `async for`: the status goes into the lab
\* record; after a terminal status the loop is left and the `finally` pops
\* the watcher.
WatchStatus(lab_name, status) ==
    /\ lab_name \in status_watchers
    /\ lab_records' = IF lab_name \in DOMAIN lab_records
                      THEN [lab_records EXCEPT ![lab_name].status = status]
                      ELSE lab_records
    /\ status_watchers' = IF lab_name \in DOMAIN lab_records /\ is_terminal(status)
                          THEN status_watchers \ {lab_name} ELSE status_watchers
    /\ last_watch' = [lab |-> lab_name, op |-> "status", status |-> status]
    /\ UNCHANGED <<crds, deploying, n_deploys, deploy_result, parsed, deleting,
                   delete_result>>

\* The watch stream ends at its timeout_seconds without a terminal status:
\* watch_topology_status returns, the `async for` of watch_status is over and
\* its `finally` pops the watcher. Nothing starts another.
WatchExpires(lab_name) ==
    /\ lab_name \in status_watchers
    /\ status_watchers' = status_watchers \ {lab_name}
    /\ last_watch' = [lab |-> lab_name, op |-> "expired", status |-> "-"]
    /\ UNCHANGED <<lab_records, crds, deploying, n_deploys, deploy_result,
                   parsed, deleting, delete_result>>

\* Deploys of one small topology with their status watchers.
NextWatch ==
    \/ \E l \in LabNames :
            DeployBegin(l, TopoSlash) /\ UNCHANGED <<storeVars, busVars, notLab>>
    \/ \E dep \in deploying, o \in {"created", "conflict", "error"} :
            DeployFinish(dep, o) /\ UNCHANGED notLab
    \/ \E l \in LabNames : DeleteBegin(l) /\ UNCHANGED <<storeVars, busVars, notLab>>
    \/ \E l \in LabNames, status \in WatchedStatuses :
            WatchStatus(l, status) /\ UNCHANGED <<storeVars, busVars, notLab>>
    \/ \E l \in LabNames : WatchExpires(l) /\ UNCHANGED <<storeVars, busVars, notLab>>

NextLab ==
    \/ \E l \in LabNames : DeleteBegin(l) /\ UNCHANGED <<storeVars, busVars, notLab>>
    \/ \E l \in LabNames, o \in {"deleted", "not_found", "error"} :
            DeleteFinish(l, o) /\ UNCHANGED <<storeVars, busVars, notLab>>
    \/ \E l \in LabNames, y \in YamlInputs :
            DeployRejected(l, y) /\ UNCHANGED <<storeVars, busVars, notLab>>
    \/ \E l \in LabNames, y \in YamlInputs :
            DeployBegin(l, y) /\ UNCHANGED <<storeVars, busVars, notLab>>
    \/ \E dep \in deploying, o \in {"created", "conflict", "error"} :
            DeployFinish(dep, o) /\ UNCHANGED notLab

\* The parser's ids of a lab's deploy.
ParsedIds(l) ==
    {parsed[l].nodes[k].id : k \in 1..Len(parsed[l].nodes)}
        \cup {parsed[l].links[k].id : k \in 1..Len(parsed[l].links)}

\* The ids all begin with the lab name and '/': the id is the prefix followed
\* by the name the parser was given.
Prefixed(l) ==
    /\ \A k \in 1..Len(parsed[l].nodes) : parsed[l].nodes[k].lab = l
    /\ \A k \in 1..Len(parsed[l].links) : parsed[l].links[k].lab = l

\* C8: when deploy_lab of a parseable topology for lab L has returned (the one
\* deploy of L so far), get_topology_by_lab(L) returns without raising exactly
\* the nodes and links the parser produced, the same number and the same ids,
\* all tagged L, the store holds that many nodes and links of L, and
\* get_labs lists L.
C8_DeployRoundTrip ==
    \A l \in LabNames :
        (parsed[l].count = 1 /\ deploying = {}) =>
            /\ get_topology_by_lab(l).raised = "none"
            /\ get_topology_by_lab(l).node_ids =
                    {parsed[l].nodes[k].id : k \in 1..Len(parsed[l].nodes)}
            /\ get_topology_by_lab(l).link_ids =
                    {parsed[l].links[k].id : k \in 1..Len(parsed[l].links)}
            /\ Cardinality({id \in DOMAIN links : links[id].lab = l})
                    = Len(parsed[l].links)
            /\ Cardinality({id \in DOMAIN nodes : nodes[id].lab = l})
                    = Len(parsed[l].nodes)
            /\ Prefixed(l)
            /\ get_labs.raised = "none"
            /\ l \in get_labs.labs

\* C9: when two labs with different names have each been deployed once, the
\* ids the parser produced for the one are disjoint from the ids it produced
\* for the other, and the store holds every node and every link of both: as
\* many nodes and links tagged with each lab as the parser produced for it.
C9_LabIdsDisjoint ==
    \A l1, l2 \in LabNames :
        (l1 # l2 /\ parsed[l1].count = 1 /\ parsed[l2].count = 1 /\ deploying = {}) =>
            /\ ParsedIds(l1) \cap ParsedIds(l2) = {}
            /\ Cardinality({id \in DOMAIN links : links[id].lab = l1})
                    = Len(parsed[l1].links)
            /\ Cardinality({id \in DOMAIN nodes : nodes[id].lab = l1})
                    = Len(parsed[l1].nodes)

\* The topology text passes validation: it has a topology section and every
\* endpoint string of its links has the form node:iface.
Valid(yaml_content) ==
    /\ yaml_content.shape = "ok"
    /\ \A k \in 1..Len(yaml_content.links) :
            \A j \in 1..Len(yaml_content.links[k]) :
                ~_parse_endpoint(yaml_content.links[k][j]).raised

\* C23: a deploy_lab call whose topology text fails validation is rejected
\* with an error, and none of that topology's nodes or links is put in the
\* store: the store holds the ids it held before the call.
C23_InvalidTopologyRejected ==
    (deploy_result.outcome # "none" /\ ~Valid(deploy_result.yaml)) =>
        /\ deploy_result.outcome = "ValueError"
        /\ DOMAIN nodes \cup DOMAIN links = deploy_result.ids_before
        /\ event_count = deploy_result.events_before

\* C24: a deploy_lab call whose create_topology met a conflict is over with
\* the already-exists error reported (the lab FAILED with that message):
\* nothing was put in the store, no event was published and no watcher was
\* started for it.
C24_ConflictIsTerminal ==
    deploy_result.k8s = "conflict" =>
        /\ deploy_result.outcome = FAILED
        /\ DOMAIN nodes \cup DOMAIN links = deploy_result.ids_before
        /\ event_count = deploy_result.events_before
        /\ ~deploy_result.watched

\* C26: when delete_lab of a known lab has finished with the CRD deleted or
\* absent, and no deploy ran beside it or since, the call returned True and
\* the lab has no CRD, no watcher, no lab record and no node or link in the
\* store.
C26_DeleteLabRemovesAll ==
    (delete_result.k8s \in {"deleted", "not_found"} /\ delete_result.alone
            /\ n_deploys = delete_result.deploys) =>
        LET l == delete_result.lab
        IN  /\ delete_result.outcome = "True"
            /\ l \notin crds
            /\ l \notin status_watchers
            /\ l \notin DOMAIN lab_records
            /\ \A id \in DOMAIN nodes : nodes[id].lab # l
            /\ \A id \in DOMAIN links : links[id].lab # l

\* C36: in every step in which the watch stream of a lab expires at its
\* timeout before a terminal status, the lab has a watcher afterwards, so
\* that a later status of the lab still reaches its record.
C36_WatchRestartsOnExpiry ==
    [][ (last_watch' # last_watch /\ last_watch'.op = "expired") =>
            last_watch'.lab \in status_watchers' ]_vars

(***************************************************************************)
(*                                 FLOW                                    *)
(***************************************************************************)

MaxRecords == 3         \* flow records per run
MaxClock == 4           \* ticks per run
IdleTimeout == 2        \* idle_timeout (constructor argument), in ticks
SweepPeriod == 2        \* asyncio.sleep(1.0) of _check_idle_flows, in ticks

\* hubble_monitor.py LinkState has the values of schemas.LinkState.
FORWARDED == "FORWARDED"
DROPPED == "DROPPED"

\* hubble_monitor.py FlowVerdict
FlowVerdict == {FORWARDED, DROPPED, "ERROR", "AUDIT", "REDIRECTED", "TRACED",
                "TRANSLATED", "UNKNOWN"}

\* The verdicts of the records observed.
Verdicts == {FORWARDED, DROPPED, "AUDIT", "UNKNOWN"}

FlowKeys == {"a->b", "b->a"}

\* hubble_monitor.py LinkStateChange
LinkStateChange(flow_key, old_state, new_state) ==
    [flow_key |-> flow_key, old_state |-> old_state, new_state |-> new_state]

NoFlowStep == [op |-> "none", flow_key |-> "-", verdict |-> "-",
               old_state |-> "-", queued_before |-> 0, time |-> 0]

InitFlow ==
    /\ flow_states = [k \in FlowKeys |-> "absent"]
    /\ flow_last_seen = [k \in FlowKeys |-> -1]
    /\ flow_queue = <<>>
    /\ clock = 0
    /\ last_sweep = 0
    /\ last_flow = NoFlowStep
    /\ n_records = 0
    /\ last_rec = [k \in FlowKeys |-> [verdict |-> "-", time |-> -1]]
    /\ idle_at = [k \in FlowKeys |-> <<>>]
    /\ hubble_pc = "new"
    /\ last_forwarded = [k \in FlowKeys |-> -1]

\* self._flow_states.get(flow_key, LinkState.UNKNOWN)
flow_state_get(flow_key) ==
    IF flow_states[flow_key] = "absent" THEN UNKNOWN ELSE flow_states[flow_key]

\* Mutant of new_flow_state: a DROPPED record keeps the state.
new_flow_state_DroppedKept(verdict, old_state) ==
    IF verdict = FORWARDED THEN ACTIVE ELSE old_state

\* _update_flow_state, lines 279-285
new_flow_state(verdict, old_state) ==
    IF verdict = DROPPED THEN DOWN
    ELSE IF verdict = FORWARDED THEN ACTIVE
    ELSE old_state

\* HubbleMonitor._update_flow_state on one record, and the caller's put of the
\* change it returns.
FlowRecord(flow_key, verdict) ==
    LET old_state == flow_state_get(flow_key)
        new_state == new_flow_state(verdict, old_state)
    IN  /\ hubble_pc = "stream"
        /\ n_records < MaxRecords
        /\ n_records' = n_records + 1
        /\ flow_last_seen' = [flow_last_seen EXCEPT ![flow_key] = clock]
        /\ IF old_state # new_state
           THEN /\ flow_states' = [flow_states EXCEPT ![flow_key] = new_state]
                /\ flow_queue' = Append(flow_queue,
                                        LinkStateChange(flow_key, old_state, new_state))
           ELSE UNCHANGED <<flow_states, flow_queue>>
        /\ last_flow' = [op |-> "record", flow_key |-> flow_key, verdict |-> verdict,
                         old_state |-> old_state, queued_before |-> Len(flow_queue),
                         time |-> clock]
        /\ last_rec' = [last_rec EXCEPT ![flow_key] =
                            [verdict |-> verdict, time |-> clock]]
        /\ idle_at' = [idle_at EXCEPT ![flow_key] = <<>>]
        /\ last_forwarded' = [last_forwarded EXCEPT ![flow_key] =
                                IF verdict = FORWARDED THEN clock ELSE @]
        /\ UNCHANGED <<clock, last_sweep, hubble_pc>>

\* Mutant of idle_flows: the timeout is not waited for.
idle_flows_NoTimeout ==
    {k \in FlowKeys : /\ flow_last_seen[k] # -1
                      /\ flow_last_seen[k] < clock
                      /\ flow_state_get(k) = ACTIVE}

\* Mutant of idle_flows: the flow's state is not looked at.
idle_flows_AnyState ==
    {k \in FlowKeys : /\ flow_last_seen[k] # -1
                      /\ flow_last_seen[k] < clock - IdleTimeout}

\* The flows that one pass of _check_idle_flows turns IDLE.
idle_flows ==
    {k \in FlowKeys : /\ flow_last_seen[k] # -1
                      /\ flow_last_seen[k] < clock - IdleTimeout
                      /\ flow_state_get(k) = ACTIVE}

\* A set of flow keys in the order of the _flow_last_seen dict.
RECURSIVE changes_of(_)
changes_of(keys) ==
    IF keys = {} THEN <<>>
    ELSE LET k == CHOOSE x \in keys : TRUE
         IN  <<LinkStateChange(k, ACTIVE, IDLE)>> \o changes_of(keys \ {k})

\* HubbleMonitor._check_idle_flows: one pass, made when its sleep of a second
\* ends (the timer fires when due and the pass takes no time).
IdleSweep ==
    /\ hubble_pc = "stream"
    /\ clock = last_sweep + SweepPeriod
    /\ last_sweep' = clock
    /\ flow_states' = [k \in FlowKeys |->
                          IF k \in idle_flows THEN IDLE ELSE flow_states[k]]
    /\ flow_queue' = flow_queue \o changes_of(idle_flows)
    /\ last_flow' = [NoFlowStep EXCEPT !.op = "sweep", !.time = clock,
                                      !.queued_before = Len(flow_queue)]
    /\ idle_at' = [k \in FlowKeys |->
                      IF k \in idle_flows THEN Append(idle_at[k], clock)
                      ELSE idle_at[k]]
    /\ UNCHANGED <<flow_last_seen, clock, n_records, last_rec, hubble_pc,
                   last_forwarded>>

\* HubbleMonitor.events: the consumer takes the next change.
FlowEventTaken ==
    /\ hubble_pc = "stream"
    /\ flow_queue # <<>>
    /\ flow_queue' = Tail(flow_queue)
    /\ last_flow' = [NoFlowStep EXCEPT !.op = "taken", !.time = clock,
                                      !.queued_before = Len(flow_queue)]
    /\ UNCHANGED <<flow_states, flow_last_seen, clock, last_sweep, n_records,
                   last_rec, idle_at, hubble_pc, last_forwarded>>

\* Half a second passes while the monitor runs; time does not pass a pass of
\* the idle check that is due.
Tick ==
    /\ hubble_pc = "stream"
    /\ clock < MaxClock
    /\ clock < last_sweep + SweepPeriod
    /\ clock' = clock + 1
    /\ UNCHANGED <<flow_states, flow_last_seen, flow_queue, last_sweep,
                   last_flow, n_records, last_rec, idle_at, hubble_pc,
                   last_forwarded>>

\* HubbleMonitor.run up to its loop: start() sets _running and creates the
\* idle check task, then observe_flows_http starts the stream.
HubbleRun ==
    /\ hubble_pc = "new"
    /\ hubble_pc' = "stream"
    /\ last_sweep' = clock
    /\ UNCHANGED <<flow_states, flow_last_seen, flow_queue, clock, last_flow,
                   n_records, last_rec, idle_at, last_forwarded>>

\* The stream ends (readline returns nothing) or raises: observe_flows_http
\* leaves its loop, and run leaves its own and calls stop() in its finally:
\* _running is False and the idle check task is cancelled. The dicts of the
\* flows are not touched.
StreamEnd ==
    /\ hubble_pc = "stream"
    /\ hubble_pc' = "stopped"
    /\ last_flow' = [NoFlowStep EXCEPT !.op = "stream_end", !.time = clock,
                                      !.queued_before = Len(flow_queue)]
    /\ UNCHANGED <<flow_states, flow_last_seen, flow_queue, clock, last_sweep,
                   n_records, last_rec, idle_at, last_forwarded>>

NextFlow ==
    \/ HubbleRun /\ UNCHANGED notFlow
    \/ StreamEnd /\ UNCHANGED notFlow
    \/ \E k \in FlowKeys, v \in Verdicts : FlowRecord(k, v) /\ UNCHANGED notFlow
    \/ IdleSweep /\ UNCHANGED notFlow
    \/ FlowEventTaken /\ UNCHANGED notFlow
    \/ Tick /\ UNCHANGED notFlow

\* C10: after a flow record was processed, the flow's state is ACTIVE if the
\* verdict was FORWARDED, DOWN if it was DROPPED, and what it was before for
\* any other verdict; last_seen of the flow is the time of the record; and
\* one LinkStateChange(old, new) with old # new was queued if the state
\* changed, none if it did not.
C10_VerdictSetsFlowState ==
    last_flow.op = "record" =>
        LET k == last_flow.flow_key
            old == last_flow.old_state
            new == flow_state_get(k)
        IN  /\ last_flow.verdict = "FORWARDED" => new = "active"
            /\ last_flow.verdict = "DROPPED" => new = "down"
            /\ last_flow.verdict \notin {"FORWARDED", "DROPPED"} => new = old
            /\ flow_last_seen[k] = last_flow.time
            /\ IF new # old
               THEN /\ Len(flow_queue) = last_flow.queued_before + 1
                    /\ flow_queue[Len(flow_queue)] =
                            [flow_key |-> k, old_state |-> old, new_state |-> new]
               ELSE Len(flow_queue) = last_flow.queued_before

\* C10 witness: an ACTIVE flow got a record with another verdict some time
\* later: it is still ACTIVE, its last_seen is the later time and nothing was
\* queued for the record.
C10_Witness ==
    /\ last_flow.op = "record"
    /\ last_flow.verdict = "AUDIT"
    /\ last_flow.old_state = "active"
    /\ flow_states[last_flow.flow_key] = "active"
    /\ last_flow.time > 0
    /\ flow_last_seen[last_flow.flow_key] = last_flow.time
    /\ Len(flow_queue) = last_flow.queued_before

C12_DroppedStaysDown ==
    /\ \A k \in FlowKeys :
            last_rec[k].verdict = "DROPPED" =>
                flow_states[k] = "down" /\ idle_at[k] = <<>>
    /\ \A j \in 1..Len(flow_queue) :
            flow_queue[j].new_state = "idle" => flow_queue[j].old_state = "active"

\* C12 witness: an ACTIVE flow got a DROPPED record, and a pass of the idle
\* check later than the record plus idle_timeout has run: the flow is DOWN.
C12_Witness ==
    \E k \in FlowKeys :
        /\ last_rec[k].verdict = "DROPPED"
        /\ last_flow.op = "sweep"
        /\ last_sweep > last_rec[k].time + IdleTimeout
        /\ flow_states[k] = "down"
        /\ \E j \in 1..Len(flow_queue) :
              flow_queue[j] = [flow_key |-> k, old_state |-> "active",
                               new_state |-> "down"]

\* C30: in every step in which the flow stream ends or disconnects, the
\* monitor subscribes again and is observing afterwards, with the state and
\* the last-seen time of every flow as they were, so that the next FORWARDED
\* record of a flow that was ACTIVE changes nothing.
C30_ResubscribesAfterDisconnect ==
    [][ (last_flow'.op = "stream_end" /\ last_flow.op # "stream_end") =>
            /\ hubble_pc' = "stream"
            /\ flow_states' = flow_states
            /\ flow_last_seen' = flow_last_seen
            /\ \A k \in FlowKeys :
                    flow_state_get(k) = ACTIVE =>
                        new_flow_state(FORWARDED, flow_states'[k]) = ACTIVE ]_vars

\* C31: a flow whose last FORWARDED record came at t0 is not ACTIVE any more
\* once a pass of the idle check later than t0 + idle_timeout has run,
\* whatever records with other verdicts came for the flow since t0.
C31_IdleWithoutForwarded ==
    \A k \in FlowKeys :
        (last_forwarded[k] # -1 /\ last_sweep > last_forwarded[k] + IdleTimeout)
            => flow_state_get(k) # ACTIVE

\* C32: in every step that processes a DROPPED record of a flow seen before,
\* the flow's last_seen time stays what it was.
C32_DroppedKeepsLastSeen ==
    [][ \A k \in FlowKeys :
            (/\ n_records' = n_records + 1
             /\ last_flow'.op = "record"
             /\ last_flow'.flow_key = k
             /\ last_flow'.verdict = DROPPED
             /\ flow_last_seen[k] # -1)
                => flow_last_seen'[k] = flow_last_seen[k] ]_vars

(***************************************************************************)
(*                              PUBLISHER                                  *)
(***************************************************************************)

BufferSize == 2         \* EventPublisher buffer_size (constructor argument)
MaxEvents == 3          \* publish calls per run

\* The batch_size settings: no batching, and batches of two.
BatchSizes == {1, 2}

\* Events are numbered in the order they are passed to publish, and the
\* publish call of event e is coroutine e; coroutine 0 is the stop call.
Calls == 1..MaxEvents
StopCall == 0
CoIds == {StopCall} \cup Calls

\* A call not made yet. held is the event the call awaits the sink on.
NoCoroutine == [pc |-> "new", held |-> 0, result |-> "-", own_failed |-> FALSE,
                own_held |-> FALSE, flush_failed |-> FALSE]

\* The calls suspended in `await self.publisher.publish(event)`.
InFlight == {c \in CoIds : coroutines[c].pc \in {"sink", "flush"}}

\* event is in buf
Holds(buf, event) == \E j \in 1..Len(buf) : buf[j] = event

\* Mutant of _buffer_event: the new event goes in front of the buffer.
_buffer_event_Front(buf, event) ==
    <<event>> \o (IF Len(buf) >= BufferSize THEN Tail(buf) ELSE buf)

\* EventPublisher._buffer_event: drop the oldest when full, append.
_buffer_event(buf, event) ==
    Append(IF Len(buf) >= BufferSize THEN Tail(buf) ELSE buf, event)

\* _flush_buffer after a failed publish: self._buffer.insert(0, event)
put_back(buf, event) == <<event>> \o buf

\* Call c returns result while the buffer is buf.
returned(c, result, buf) ==
    [coroutines[c] EXCEPT !.pc = "done", !.held = 0, !.result = result,
                          !.own_held = Holds(buf, c)]

\* What publish and stop return once their flush is over.
flush_result(c) == IF c = StopCall THEN "stopped" ELSE "buffered"

\* _flush_buffer at the head of its loop, run by call c on buffer buf: pop the
\* head and await the sink on it, or leave the loop, and the call returns.
flush_loop(c, buf) ==
    IF buf # <<>>
    THEN /\ _buffer' = Tail(buf)
         /\ coroutines' = [coroutines EXCEPT ![c].pc = "flush",
                                             ![c].held = Head(buf)]
    ELSE /\ _buffer' = buf
         /\ coroutines' = [coroutines EXCEPT ![c] = returned(c, flush_result(c), buf)]

\* NetworkMonitorAgent.__init__: self._publisher = None
InitPub ==
    /\ batch_size = 0
    /\ _buffer = <<>>
    /\ coroutines = [c \in CoIds |-> NoCoroutine]
    /\ sink_log = <<>>
    /\ n_published = 0
    /\ overlapped = FALSE
    /\ direct_ok = FALSE
    /\ last_pub = [op |-> "init", event |-> 0, co |-> 0]

\* EventPublisher.__init__, called by the agent's start
NewEventPublisher(size) ==
    /\ batch_size = 0
    /\ batch_size' = size
    /\ last_pub' = [op |-> "new", event |-> 0, co |-> 0]
    /\ UNCHANGED <<_buffer, coroutines, sink_log, n_published, overlapped,
                   direct_ok>>

\* EventPublisher.publish up to its first await, or to its return. main.py
\* makes a task of every call, so a call may start while others are in flight.
PublisherPublish ==
    LET e == n_published + 1
    IN  /\ batch_size # 0
        /\ n_published < MaxEvents
        /\ n_published' = e
        /\ overlapped' = (overlapped \/ InFlight # {}
                            \/ coroutines[StopCall].pc # "new")
        /\ IF batch_size <= 1
           THEN /\ coroutines' = [coroutines EXCEPT ![e].pc = "sink", ![e].held = e]
                /\ _buffer' = _buffer
           ELSE LET buf == _buffer_event(_buffer, e)
                IN  IF Len(buf) >= batch_size
                    THEN flush_loop(e, buf)
                    ELSE /\ _buffer' = buf
                         /\ coroutines' = [coroutines EXCEPT
                                             ![e] = returned(e, "buffered", buf)]
        /\ last_pub' = [op |-> "publish", event |-> e, co |-> e]
        /\ UNCHANGED <<batch_size, sink_log, direct_ok>>

\* EventPublisher.stop: flush what the buffer holds.
PublisherStop ==
    /\ batch_size # 0
    /\ coroutines[StopCall].pc = "new"
    /\ overlapped' = (overlapped \/ InFlight # {})
    /\ IF _buffer # <<>>
       THEN flush_loop(StopCall, _buffer)
       ELSE /\ _buffer' = _buffer
            /\ coroutines' = [coroutines EXCEPT
                                ![StopCall] = returned(StopCall, "stopped", _buffer)]
    /\ last_pub' = [op |-> "stop", event |-> 0, co |-> StopCall]
    /\ UNCHANGED <<batch_size, sink_log, n_published, direct_ok>>

\* publish with batch_size <= 1, after `await self.publisher.publish(event)`:
\* the sink took the event (ok) or failed; the call returns the sink's result.
SinkReply(c, ok) ==
    /\ coroutines[c].pc = "sink"
    /\ IF ok
       THEN /\ sink_log' = Append(sink_log, c)
            /\ _buffer' = _buffer
            /\ coroutines' = [coroutines EXCEPT ![c] = returned(c, "ok", _buffer)]
       ELSE LET buf == _buffer_event(_buffer, c)
            IN  /\ sink_log' = sink_log
                /\ _buffer' = buf
                /\ coroutines' = [coroutines EXCEPT ![c] =
                        [returned(c, "failed", buf) EXCEPT !.own_failed = TRUE]]
    /\ direct_ok' = (direct_ok \/ ok)
    /\ last_pub' = [op |-> IF ok THEN "sink_ok" ELSE "sink_failed",
                    event |-> c, co |-> c]
    /\ UNCHANGED <<batch_size, n_published, overlapped>>

\* _flush_buffer after `await self.publisher.publish(event)`: on success go
\* round the loop, on failure put the event back and stop.
FlushReply(c, ok) ==
    /\ coroutines[c].pc = "flush"
    /\ LET e == coroutines[c].held
       IN  IF ok
           THEN /\ sink_log' = Append(sink_log, e)
                /\ flush_loop(c, _buffer)
           ELSE LET buf == put_back(_buffer, e)
                IN  /\ sink_log' = sink_log
                    /\ _buffer' = buf
                    /\ coroutines' = [coroutines EXCEPT ![c] =
                            [returned(c, flush_result(c), buf) EXCEPT
                                !.flush_failed = TRUE,
                                !.own_failed = (@ \/ e = c)]]
    /\ last_pub' = [op |-> IF ok THEN "flush_ok" ELSE "flush_failed",
                    event |-> coroutines[c].held, co |-> c]
    /\ UNCHANGED <<batch_size, n_published, overlapped, direct_ok>>

NextPub ==
    \/ \E size \in BatchSizes : NewEventPublisher(size) /\ UNCHANGED notPub
    \/ PublisherPublish /\ UNCHANGED notPub
    \/ PublisherStop /\ UNCHANGED notPub
    \/ \E c \in Calls, ok \in BOOLEAN : SinkReply(c, ok) /\ UNCHANGED notPub
    \/ \E c \in CoIds, ok \in BOOLEAN : FlushReply(c, ok) /\ UNCHANGED notPub

\* The events 1..n in the order they were passed to publish.
Upto(n) == [j \in 1..n |-> j]

\* The event a call at pc awaits the sink on, as a sequence (calls that do
\* not overlap: at most one).
HeldBy(pc) ==
    LET cs == {c \in CoIds : coroutines[c].pc = pc}
    IN  IF cs = {} THEN <<>> ELSE <<coroutines[CHOOSE c \in cs : TRUE].held>>

\* C15: publish calls made one after the other, none of them delivered by
\* its own sink call, and no more of them than buffer_size: what the sink
\* has, then the event a flush awaits, then the buffer, then the event a
\* publish awaits, are the events in the order passed to publish; and once
\* stop's flush has run without a failure the sink has e1..ek in that order
\* and the buffer is empty. And a flush that hits a failure stops there with
\* the failed event at the head of the buffer.
C15_FlushDeliversInOrder ==
    /\ (~overlapped /\ ~direct_ok /\ n_published <= BufferSize) =>
            /\ sink_log \o HeldBy("flush") \o _buffer \o HeldBy("sink")
                    = Upto(n_published)
            /\ (coroutines[StopCall].pc = "done"
                    /\ ~coroutines[StopCall].flush_failed) =>
                        _buffer = <<>> /\ sink_log = Upto(n_published)
    /\ last_pub.op = "flush_failed" =>
            /\ _buffer # <<>>
            /\ Head(_buffer) = last_pub.event
            /\ coroutines[last_pub.co].pc = "done"
            /\ coroutines[last_pub.co].flush_failed

\* C15 witness: without batching two publish calls failed one after the
\* other, then stop flushed against a working sink: the sink has e1, e2.
C15_Witness ==
    /\ batch_size = 1
    /\ ~overlapped
    /\ n_published = 2
    /\ coroutines[1].result = "failed"
    /\ coroutines[2].result = "failed"
    /\ coroutines[StopCall].pc = "done"
    /\ ~coroutines[StopCall].flush_failed
    /\ sink_log = <<1, 2>>
    /\ _buffer = <<>>

\* C16: the buffer never holds more than buffer_size events, also while
\* publish calls and a flush overlap.
C16_BufferBounded == Len(_buffer) <= BufferSize

\* C17: with batch_size > 1 the sink gets the events in the order they were
\* passed to publish, also with several publish calls in flight.
C17_BatchKeepsOrder ==
    batch_size > 1 =>
        \A j, k \in 1..Len(sink_log) : j < k => sink_log[j] < sink_log[k]

\* C18: a publish call during which the sink failed to deliver the call's
\* event has returned a failed result with the event in the buffer, for
\* every batch_size.
C18_FailureReturnsFailed ==
    \A c \in Calls :
        (coroutines[c].pc = "done" /\ coroutines[c].own_failed) =>
            coroutines[c].result = "failed" /\ coroutines[c].own_held

\* C37: without batching and with no publish failing, the sink gets the
\* events in the order in which the fusion component produced them and the
\* agent passed them to publish, also when the publish of an earlier event
\* is still in flight when a later one is passed; the event delivered last
\* is the latest of those delivered.
C37_SinkKeepsFusionOrder ==
    (batch_size = 1 /\ \A c \in Calls : ~coroutines[c].own_failed) =>
        \A j, k \in 1..Len(sink_log) : j < k => sink_log[j] < sink_log[k]

\* C39: without batching and with the publish calls made one after the
\* other, no event is with the sink while an event passed to publish before
\* it is held in the failure buffer.
C39_NoDeliveryPastBuffer ==
    (batch_size = 1 /\ ~overlapped) =>
        \A j \in 1..Len(sink_log), b \in 1..Len(_buffer) :
            sink_log[j] < _buffer[b]

\* The publisher while the agent keeps running: every step but stop.
NextPubRunning ==
    \/ \E size \in BatchSizes : NewEventPublisher(size) /\ UNCHANGED notPub
    \/ PublisherPublish /\ UNCHANGED notPub
    \/ \E c \in Calls, ok \in BOOLEAN : SinkReply(c, ok) /\ UNCHANGED notPub
    \/ \E c \in CoIds, ok \in BOOLEAN : FlushReply(c, ok) /\ UNCHANGED notPub

\* C29: while the publisher keeps running without batching, once the sink
\* has accepted a publish again while the failure buffer holds events, the
\* buffered events are eventually delivered to the sink, with no call of
\* stop.
C29_BufferRetriedWhileRunning ==
    \A e \in Calls :
        (batch_size = 1 /\ Holds(_buffer, e) /\ last_pub.op = "sink_ok")
            ~> Holds(sink_log, e)

(***************************************************************************)
(*                                 HTTP                                    *)
(***************************************************************************)

MaxRetryCount == 3      \* the largest retry_count (constructor argument)
MaxHttp == 2            \* publish calls per run

\* The values of retry_count the publisher is made with.
RetryCounts == 0..MaxRetryCount

\* The statuses of the responses.
Statuses == {200, 204, 299, 300, 404, 500}

\* The exceptions publish catches.
Raised == {"TimeoutError", "ClientError"}

NoHttpResult == [success |-> FALSE, message |-> "-"]

\* What a POST ended with: a response with its status, or an exception.
Answered(status) == [raised |-> "-", status |-> status]
Threw(exception) == [raised |-> exception, status |-> 0]

\* PublishResult(success, target, message); the message by its kind.
PublishResult(success, message) == [success |-> success, message |-> message]

InitHttp ==
    /\ retry_count = -1
    /\ http_pc = "idle"
    /\ attempt = 0
    /\ http_result = NoHttpResult
    /\ http_log = <<>>
    /\ n_http = 0

\* HttpPublisher.__init__
NewHttpPublisher(count) ==
    /\ retry_count = -1
    /\ retry_count' = count
    /\ UNCHANGED <<http_pc, attempt, http_result, http_log, n_http>>

\* The return after the loop: all attempts were used up.
failed_after_attempts == PublishResult(FALSE, "Failed after attempts")

\* HttpPublisher.publish up to its first POST: `for attempt in
\* range(self.retry_count)` begins, or has nothing to run.
HttpPublish ==
    /\ retry_count # -1
    /\ http_pc = "idle"
    /\ n_http < MaxHttp
    /\ n_http' = n_http + 1
    /\ http_log' = <<>>
    /\ attempt' = 0
    /\ IF 0 < retry_count
       THEN http_pc' = "post" /\ http_result' = NoHttpResult
       ELSE http_pc' = "idle" /\ http_result' = failed_after_attempts
    /\ UNCHANGED retry_count

\* Mutant of is_success: 300 counts as a success.
is_success_Upto300(status) == status <= 300

\* `if response.status < 300`
is_success(status) == status < 300

\* The POST got a response: publish returns at once.
HttpResponse(status) ==
    /\ http_pc = "post"
    /\ http_log' = Append(http_log, Answered(status))
    /\ http_result' = IF is_success(status)
                      THEN PublishResult(TRUE, "HTTP status")
                      ELSE PublishResult(FALSE, "HTTP status and text")
    /\ http_pc' = "idle"
    /\ UNCHANGED <<retry_count, attempt, n_http>>

\* `if attempt < self.retry_count - 1`: the attempt is followed by a sleep.
sleeps_after(a) == a < retry_count - 1

\* The POST raised asyncio.TimeoutError or aiohttp.ClientError: sleep
\* retry_delay if an attempt is left, else leave the loop and return.
HttpRaises(exception) ==
    /\ http_pc = "post"
    /\ http_log' = Append(http_log, Threw(exception))
    /\ IF sleeps_after(attempt)
       THEN http_pc' = "sleep" /\ UNCHANGED <<attempt, http_result>>
       ELSE IF attempt + 1 < retry_count
       THEN http_pc' = "post" /\ attempt' = attempt + 1 /\ UNCHANGED http_result
       ELSE /\ http_pc' = "idle"
            /\ http_result' = failed_after_attempts
            /\ UNCHANGED attempt
    /\ UNCHANGED <<retry_count, n_http>>

\* asyncio.sleep(self.retry_delay) is over: the next round of the loop.
HttpSleepDone ==
    /\ http_pc = "sleep"
    /\ IF attempt + 1 < retry_count
       THEN http_pc' = "post" /\ attempt' = attempt + 1 /\ UNCHANGED http_result
       ELSE /\ http_pc' = "idle"
            /\ http_result' = failed_after_attempts
            /\ UNCHANGED attempt
    /\ UNCHANGED <<retry_count, http_log, n_http>>

NextHttp ==
    \/ \E count \in RetryCounts : NewHttpPublisher(count) /\ UNCHANGED notHttp
    \/ HttpPublish /\ UNCHANGED notHttp
    \/ \E status \in Statuses : HttpResponse(status) /\ UNCHANGED notHttp
    \/ \E exception \in Raised : HttpRaises(exception) /\ UNCHANGED notHttp
    \/ HttpSleepDone /\ UNCHANGED notHttp

\* The publish call last made has returned.
HttpReturned == n_http > 0 /\ http_pc = "idle"

CounterModulus == 8     \* the kernel's byte counters wrap here (2^64 in the kernel)
MaxPolls == 4           \* samples per run

\* Bytes received or sent between two samples.
Increments == {0, 2, 4}

\* Seconds between the timestamps of two samples.
TimeDeltas == {1, 2}

NoStats == [rx_bytes |-> -1, tx_bytes |-> -1]

\* sysfs_poller.py InterfaceStats, the byte counters
InterfaceStats(rx_bytes, tx_bytes) == [rx_bytes |-> rx_bytes, tx_bytes |-> tx_bytes]

NoMetrics == [rx_bps |-> 0, tx_bps |-> 0, rx_bytes_delta |-> 0,
              tx_bytes_delta |-> 0, has_traffic |-> FALSE, state |-> T_UNKNOWN,
              computed |-> FALSE]

InitMetrics ==
    /\ stats_previous = NoStats
    /\ current_metrics = NoMetrics
    /\ poller_idle = 0
    /\ poller_state = T_UNKNOWN
    /\ n_polls = 0

\* `rx_bytes_delta = curr.rx_bytes - prev.rx_bytes`, the same for tx
bytes_delta(prev_bytes, curr_bytes) == curr_bytes - prev_bytes

\* `rx_bps = rx_bytes_delta / time_delta`; the deltas of the model are even,
\* so the division by 1 or 2 is exact.
rate(delta, time_delta) ==
    IF delta >= 0 THEN delta \div time_delta ELSE -((-delta) \div time_delta)

\* `has_traffic = (rx_bytes_delta > ... or tx_bytes_delta > ...)`
has_traffic(rx_bytes_delta, tx_bytes_delta) ==
    rx_bytes_delta > ACTIVE_THRESHOLD_BYTES \/ tx_bytes_delta > ACTIVE_THRESHOLD_BYTES

\* SysfsPoller._compute_metrics(ifname, prev, curr)
_compute_metrics(prev, curr, time_delta) ==
    LET rx_bytes_delta == bytes_delta(prev.rx_bytes, curr.rx_bytes)
        tx_bytes_delta == bytes_delta(prev.tx_bytes, curr.tx_bytes)
        traffic == has_traffic(rx_bytes_delta, tx_bytes_delta)
        counter == IF traffic THEN 0 ELSE poller_idle + 1
    IN  [rx_bps |-> rate(rx_bytes_delta, time_delta),
         tx_bps |-> rate(tx_bytes_delta, time_delta),
         rx_bytes_delta |-> rx_bytes_delta,
         tx_bytes_delta |-> tx_bytes_delta,
         has_traffic |-> traffic,
         state |-> IF traffic THEN T_ACTIVE
                   ELSE IF counter >= IdleThreshold THEN T_IDLE
                   ELSE poller_state,
         computed |-> TRUE]

\* What the kernel's counter holds after `add` more bytes: it wraps.
counter_after(bytes, add) == (bytes + add) % CounterModulus

\* SysfsPoller._poll_once for the interface: the counters moved on by rx_add
\* and tx_add since the last sample, or were reset (the interface was made
\* anew) and then moved.
PollOnce(rx_add, tx_add, time_delta, reset) ==
    LET base == IF stats_previous = NoStats \/ reset
                THEN InterfaceStats(0, 0) ELSE stats_previous
        curr == InterfaceStats(counter_after(base.rx_bytes, rx_add),
                               counter_after(base.tx_bytes, tx_add))
    IN  /\ n_polls < MaxPolls
        /\ n_polls' = n_polls + 1
        /\ IF stats_previous # NoStats
           THEN LET m == _compute_metrics(stats_previous, curr, time_delta)
                IN  /\ current_metrics' = m
                    /\ poller_idle' = IF m.has_traffic THEN 0 ELSE poller_idle + 1
                    /\ poller_state' = m.state
           ELSE UNCHANGED <<current_metrics, poller_idle, poller_state>>
        /\ stats_previous' = curr

NextMetrics ==
    \E rx_add, tx_add \in Increments, time_delta \in TimeDeltas, reset \in BOOLEAN :
        PollOnce(rx_add, tx_add, time_delta, reset) /\ UNCHANGED notMetrics

\* C34: the current_metrics of a sample in which a byte counter was lower than at
\* the previous sample have a zero rate for that counter, the sample counts
\* as one without traffic unless the other counter grew, and no rate is ever
\* negative.
C34_WrapIsZeroDelta ==
    current_metrics.computed =>
        /\ current_metrics.rx_bytes_delta < 0 => current_metrics.rx_bps = 0
        /\ current_metrics.tx_bytes_delta < 0 => current_metrics.tx_bps = 0
        /\ (current_metrics.rx_bytes_delta <= 0 /\ current_metrics.tx_bytes_delta <= 0)
                => ~current_metrics.has_traffic
        /\ current_metrics.rx_bps >= 0
        /\ current_metrics.tx_bps >= 0

(***************************************************************************)
(*                           SPECIFICATIONS                                *)
(***************************************************************************)

Init ==
    /\ InitFusion /\ InitStore /\ InitLab /\ InitFlow /\ InitBus /\ InitPub
    /\ InitHttp /\ InitMetrics

Next ==
    \/ NextFusion \/ NextStore \/ NextLab \/ NextWatch \/ NextFlow \/ NextBus
    \/ NextPub
    \/ NextHttp \/ NextMetrics

Spec == Init /\ [][Next]_vars

SpecFusion == Init /\ [][NextFusion]_vars

SpecStore == Init /\ [][NextStore]_vars

SpecCommit == Init /\ [][NextCommit]_vars

SpecLab == Init /\ [][NextLab]_vars

SpecWatch == Init /\ [][NextWatch]_vars

SpecFlow == Init /\ [][NextFlow]_vars

SpecBus == Init /\ [][NextBus]_vars

SpecPub == Init /\ [][NextPub]_vars

SpecHttp == Init /\ [][NextHttp]_vars

SpecMetrics == Init /\ [][NextMetrics]_vars

\* The running publisher: the event loop runs every coroutine that can go on.
SpecPubRunning == Init /\ [][NextPubRunning]_vars /\ WF_vars(NextPubRunning)

====
